---- MODULE Spec2Model ----
(***************************************************************************)
(* The online recommendation pipeline of server/rest.go: getRecommend,     *)
(* Recommend, the six recommenders, the hidden filters and the write-back, *)
(* over an abstract cache store and data store.                            *)
(***************************************************************************)
EXTENDS Integers, Sequences, FiniteSets, TLC

(***************************************************************************)
(* Bounds of the model.                                                    *)
(***************************************************************************)
MaxN == 2
MaxOffset == 1
MaxTick == 1
CacheSize == 1

(***************************************************************************)
(* Universe: one requesting user, two neighbour users, three items.        *)
(***************************************************************************)
UserId == "u1"
ItemOrder == <<"a", "b", "c", "d">>
ItemIds == {ItemOrder[i] : i \in 1..Len(ItemOrder)}
PositiveFeedbackType == {"like"}
WriteBackTypes == {"", "impression"}
Categories == {"", "books"}

\* The instant of tick 0: 1700000000, a multiple of 128.
T0 == 13281250 * 128
\* time.Now().Unix() when the clock stands at tick t.
Unix(t) == T0 + 70 * t

Min(x, y) == IF x < y THEN x ELSE y

(***************************************************************************)
(* Go's float32(x) for a non-negative integer x: 24 bits of mantissa,      *)
(* round to nearest, ties to even.                                         *)
(***************************************************************************)
RECURSIVE Ulp(_, _)
Ulp(x, u) == IF x \div u < 16777216 THEN u ELSE Ulp(x, 2 * u)

Float32(x) ==
    LET u == Ulp(x, 1)
        q == x \div u
        r == x % u
    IN  IF 2 * r < u THEN q * u
        ELSE IF 2 * r > u THEN (q + 1) * u
        ELSE IF q % 2 = 0 THEN q * u ELSE (q + 1) * u

Scored(id, score) == [Id |-> id, Score |-> score]

RECURSIVE RemoveScores(_)
RemoveScores(items) ==
    IF items = <<>> THEN <<>>
    ELSE <<Head(items).Id>> \o RemoveScores(Tail(items))

(***************************************************************************)
(* State.                                                                  *)
(***************************************************************************)
VARIABLES
    cache,              \* cache store: <<prefix, name>> -> ranked list of Scored
    hiddenItems,        \* cache keyspace HiddenItems: the item ids flagged 1
    feedback,           \* data store: feedback rows, in insertion order
    items,              \* data store: item id -> Item
    clock,              \* wall clock, in ticks
    fallbackRecommend,  \* GorseConfig.Recommend.FallbackRecommend
    apiKey,             \* GorseConfig.Server.APIKey
    isDashboard,        \* RestServer.IsDashboard
    xApiKey,            \* X-API-Key header of the request in flight
    prev,               \* the request before the one in flight, and its answer
    budget,             \* requests the environment may still send
    pc,                 \* position of the getRecommend handler
    request,            \* parsed arguments of the request in flight
    recommenders,       \* the chain getRecommend built
    idx,                \* next recommender of the chain Recommend runs
    ctx,                \* the recommendContext
    recommended,        \* what Recommend returned
    results,            \* results[offset:] of getRecommend
    wb,                 \* write-back loop: index of the item in hand
    response,           \* what the handler answered
    calls               \* store calls of the request in flight, in order

vars == <<cache, hiddenItems, feedback, items, clock, fallbackRecommend, apiKey,
          isDashboard, xApiKey, prev, budget, pc, request, recommenders, idx,
          ctx, recommended, results, wb, response, calls>>

stores == <<cache, hiddenItems, feedback, items>>
\* The server's configuration.
config == <<fallbackRecommend, apiKey, isDashboard>>
\* What changes only when a request arrives.
arrival == <<xApiKey, prev>>

(***************************************************************************)
(* Cache store (storage/cache), by its contract.                           *)
(***************************************************************************)
OfflineRecommend == "offline_recommend"
CollaborativeRecommend == "collaborative_recommend"
LatestItems == "latest_items"
PopularItems == "popular_items"
ItemNeighbors == "item_neighbors"
UserNeighbors == "user_neighbors"
IgnoreItems == "ignore_items"
HiddenItems == "hidden_items"

Lookup(c, prefix, name) ==
    IF <<prefix, name>> \in DOMAIN c THEN c[<<prefix, name>>] ELSE <<>>

\* Inclusive indices; end = -1 reads to the end of the list.
GetScores(c, prefix, name, begin, end) ==
    LET l == Lookup(c, prefix, name)
        last == IF end = -1 THEN Len(l) ELSE Min(end + 1, Len(l))
    IN  SubSeq(l, begin + 1, last)

CategoryName(name, category) ==
    IF category = "" THEN name ELSE name \o "/" \o category

GetCategoryScores(c, prefix, name, category, begin, end) ==
    GetScores(c, prefix, CategoryName(name, category), begin, end)

Exists(h, names) == [i \in 1..Len(names) |-> IF names[i] \in h THEN 1 ELSE 0]

AppendScores(c, prefix, name, entry) ==
    [k \in DOMAIN c \cup {<<prefix, name>>} |->
        IF k = <<prefix, name>> THEN Append(Lookup(c, prefix, name), entry)
        ELSE c[k]]

(***************************************************************************)
(* Data store (storage/data), by its contract.                             *)
(***************************************************************************)
Feedback(userId, itemId, type, timestamp) ==
    [UserId |-> userId, ItemId |-> itemId, FeedbackType |-> type,
     Timestamp |-> timestamp]

FeedbackIds(feedbacks) == [i \in 1..Len(feedbacks) |-> feedbacks[i].ItemId]

GetUserFeedback(fb, userId, withFuture, types, now) ==
    SelectSeq(fb, LAMBDA r :
        /\ r.UserId = userId
        /\ (types = {} \/ r.FeedbackType \in types)
        /\ (withFuture \/ r.Timestamp <= now))

\* overwrite = false: a row whose (UserId, ItemId, FeedbackType) exists is kept.
BatchInsertFeedback(fb, row) ==
    IF \E i \in 1..Len(fb) :
          /\ fb[i].UserId = row.UserId
          /\ fb[i].ItemId = row.ItemId
          /\ fb[i].FeedbackType = row.FeedbackType
    THEN fb
    ELSE Append(fb, row)

(***************************************************************************)
(* A store call, as the handler issues it.                                 *)
(***************************************************************************)
\* err: the call failed.  out: for a hidden check, the ids its filter let through.
Call(op, prefix, names, begin, end, err, out) ==
    [op |-> op, prefix |-> prefix, names |-> names, begin |-> begin,
     end |-> end, err |-> err, out |-> out]

ScoresCall(prefix, name, begin, end, down) ==
    Call("GetScores", prefix, <<name>>, begin, end, "GetScores" \in down, <<>>)

DataCall(op, name, err) == Call(op, "", <<name>>, 0, 0, err, <<>>)

\* BatchInsertFeedback([]data.Feedback{row}, insertUser, insertItem, overwrite)
InsertCall(row, insertUser, insertItem, overwrite, err) ==
    [op |-> "BatchInsertFeedback", prefix |-> "", names |-> <<row.UserId>>,
     begin |-> row.Timestamp, end |-> 0, err |-> err, out |-> <<row.ItemId>>,
     row |-> row, flags |-> <<insertUser, insertItem, overwrite>>]

StoreOps == {"GetScores", "Exists", "GetUserFeedback", "GetItem"}
\* The calls that fail while one step runs: none, or every call of one kind.
Outages == {{}} \cup {{op} : op \in StoreOps}

(***************************************************************************)
(* Hidden filters.                                                         *)
(***************************************************************************)
\* Faulty variant: a filter that drops nothing.
KeepAll(list, isHidden) == list

RECURSIVE KeepVisible(_, _)
KeepVisible(list, isHidden) ==
    IF list = <<>> THEN <<>>
    ELSE (IF Head(isHidden) = 0 THEN <<Head(list)>> ELSE <<>>)
         \o KeepVisible(Tail(list), Tail(isHidden))

\* Faulty variant: a filter that lets nothing through when its check fails.
filterOutHiddenScoresClosed(list, err) ==
    IF err THEN <<>>
    ELSE KeepVisible(list, Exists(hiddenItems, RemoveScores(list)))

\* err: the Exists call failed.
filterOutHiddenScores(list, err) ==
    LET isHidden == Exists(hiddenItems, RemoveScores(list))
    IN  IF err THEN list ELSE KeepVisible(list, isHidden)

filterOutHiddenFeedback(feedbacks, err) ==
    LET isHidden == Exists(hiddenItems, FeedbackIds(feedbacks))
    IN  IF err THEN feedbacks ELSE KeepVisible(feedbacks, isHidden)

ExistsCall(names, out, down) ==
    Call("Exists", HiddenItems, names, 0, 0, "Exists" \in down, out)

(***************************************************************************)
(* recommendContext.                                                       *)
(***************************************************************************)
NilFeedback == [isNil |-> TRUE, rows |-> <<>>]

NewContext(userId, category, n, excludeSet) ==
    [userId |-> userId, category |-> category, n |-> n,
     userFeedback |-> NilFeedback, results |-> <<>>, excludeSet |-> excludeSet,
     numPrevStage |-> 0, numFromLatest |-> 0, numFromPopular |-> 0,
     numFromUserBased |-> 0, numFromItemBased |-> 0,
     numFromCollaborative |-> 0, numFromOffline |-> 0]

NoContext == NewContext("", "", 0, {})

\* Faulty variant: an entry that expires this very second is not yet ignored.
createRecommendContextLate(userId, category, n, t) ==
    LET ignoreItems == GetScores(cache, IgnoreItems, userId, 0, -1)
        excludeSet == {ignoreItems[i].Id : i \in
                         {j \in 1..Len(ignoreItems) :
                            ignoreItems[j].Score < Float32(Unix(t))}}
    IN  NewContext(userId, category, n, excludeSet)

\* The ignored items createRecommendContext keeps, read at tick t.
createRecommendContext(userId, category, n, t) ==
    LET ignoreItems == GetScores(cache, IgnoreItems, userId, 0, -1)
        excludeSet == {ignoreItems[i].Id : i \in
                         {j \in 1..Len(ignoreItems) :
                            ignoreItems[j].Score <= Float32(Unix(t))}}
    IN  NewContext(userId, category, n, excludeSet)

\* What a recommender hands back: the error, the context, the calls it made.
Return(err, c, made) == [err |-> err, ctx |-> c, calls |-> made]

\* Faulty variant: the feedback is loaded and its items are not excluded.
requireUserFeedbackUnmarked(c, down, nilEmpty) ==
    LET call == DataCall("GetUserFeedback", c.userId,
                         "GetUserFeedback" \in down)
        rows == GetUserFeedback(feedback, c.userId, FALSE, {}, Unix(clock))
    IN  IF c.userFeedback.isNil
        THEN IF "GetUserFeedback" \in down
             THEN Return(TRUE, c, <<call>>)
             ELSE Return(FALSE,
                    [c EXCEPT
                       !.userFeedback =
                           [isNil |-> rows = <<>> /\ nilEmpty, rows |-> rows]],
                    <<call>>)
        ELSE Return(FALSE, c, <<>>)

\* nilEmpty: the data store answers "no rows" with a nil slice.
requireUserFeedback(c, down, nilEmpty) ==
    LET call == DataCall("GetUserFeedback", c.userId,
                         "GetUserFeedback" \in down)
        rows == GetUserFeedback(feedback, c.userId, FALSE, {}, Unix(clock))
    IN  IF c.userFeedback.isNil
        THEN IF "GetUserFeedback" \in down
             THEN Return(TRUE, c, <<call>>)
             ELSE Return(FALSE,
                    [c EXCEPT
                       !.userFeedback =
                           [isNil |-> rows = <<>> /\ nilEmpty, rows |-> rows],
                       !.excludeSet =
                           @ \cup {rows[i].ItemId : i \in 1..Len(rows)}],
                    <<call>>)
        ELSE Return(FALSE, c, <<>>)

\* Faulty variant: append without asking the exclude set.
RECURSIVE AppendAll(_, _)
AppendAll(list, c) ==
    IF list = <<>> THEN c
    ELSE AppendAll(Tail(list),
           [c EXCEPT !.results = Append(@, Head(list).Id),
                     !.excludeSet = @ \cup {Head(list).Id}])

\* for _, item := range list { if !excludeSet.Has(item.Id) { append; Add } }
RECURSIVE AppendUnseen(_, _)
AppendUnseen(list, c) ==
    IF list = <<>> THEN c
    ELSE IF Head(list).Id \notin c.excludeSet
         THEN AppendUnseen(Tail(list),
                [c EXCEPT !.results = Append(@, Head(list).Id),
                          !.excludeSet = @ \cup {Head(list).Id}])
         ELSE AppendUnseen(Tail(list), c)

(***************************************************************************)
(* The four ranked-list recommenders.                                      *)
(***************************************************************************)
\* Faulty variant: a recommender that reads its stores whatever it holds.
WantingAlways(c) == TRUE

\* Faulty variant: a recommender still runs when the target is just reached.
WantingMore(c) == Len(c.results) <= c.n

\* if len(ctx.results) < ctx.n: the test every recommender starts with.
Wanting(c) == Len(c.results) < c.n

RecommendOffline(c, down) ==
    IF Wanting(c)
    THEN LET read == ScoresCall(OfflineRecommend, CategoryName(c.userId, c.category),
                                0, CacheSize, down)
             recommendation == GetCategoryScores(cache, OfflineRecommend,
                                 c.userId, c.category, 0, CacheSize)
             visible == filterOutHiddenScores(recommendation, "Exists" \in down)
             after == AppendUnseen(visible, c)
         IN  IF "GetScores" \in down
             THEN Return(TRUE, c, <<read>>)
             ELSE Return(FALSE,
                    [after EXCEPT
                       !.numFromOffline = Len(after.results) - c.numPrevStage,
                       !.numPrevStage = Len(after.results)],
                    <<read, ExistsCall(RemoveScores(recommendation),
                                     RemoveScores(visible), down)>>)
    ELSE Return(FALSE, c, <<>>)

RecommendCollaborative(c, down) ==
    IF Wanting(c)
    THEN LET read == ScoresCall(CollaborativeRecommend, CategoryName(c.userId, c.category),
                                0, CacheSize, down)
             collaborativeRecommendation ==
                 GetCategoryScores(cache, CollaborativeRecommend,
                                   c.userId, c.category, 0, CacheSize)
             visible == filterOutHiddenScores(collaborativeRecommendation,
                                              "Exists" \in down)
             after == AppendUnseen(visible, c)
         IN  IF "GetScores" \in down
             THEN Return(TRUE, c, <<read>>)
             ELSE Return(FALSE,
                    [after EXCEPT
                       !.numFromCollaborative =
                           Len(after.results) - c.numPrevStage,
                       !.numPrevStage = Len(after.results)],
                    <<read, ExistsCall(RemoveScores(collaborativeRecommendation),
                                     RemoveScores(visible), down)>>)
    ELSE Return(FALSE, c, <<>>)

RecommendLatest(c, down, nilEmpty) ==
    IF Wanting(c)
    THEN LET hist == requireUserFeedback(c, down, nilEmpty)
             h == hist.ctx
             read == ScoresCall(LatestItems, h.category, 0,
                                h.n - Len(h.results), down)
             list == GetScores(cache, LatestItems, h.category,
                               0, h.n - Len(h.results))
             visible == filterOutHiddenScores(list, "Exists" \in down)
             after == AppendUnseen(visible, h)
         IN  IF hist.err
             THEN Return(TRUE, c, hist.calls)
             ELSE IF "GetScores" \in down
             THEN Return(TRUE, h, hist.calls \o <<read>>)
             ELSE Return(FALSE,
                    [after EXCEPT
                       !.numFromLatest = Len(after.results) - h.numPrevStage,
                       !.numPrevStage = Len(after.results)],
                    hist.calls \o <<read, ExistsCall(RemoveScores(list),
                                                   RemoveScores(visible), down)>>)
    ELSE Return(FALSE, c, <<>>)

RecommendPopular(c, down, nilEmpty) ==
    IF Wanting(c)
    THEN LET hist == requireUserFeedback(c, down, nilEmpty)
             h == hist.ctx
             read == ScoresCall(PopularItems, h.category, 0,
                                h.n - Len(h.results), down)
             list == GetScores(cache, PopularItems, h.category,
                               0, h.n - Len(h.results))
             visible == filterOutHiddenScores(list, "Exists" \in down)
             after == AppendUnseen(visible, h)
         IN  IF hist.err
             THEN Return(TRUE, c, hist.calls)
             ELSE IF "GetScores" \in down
             THEN Return(TRUE, h, hist.calls \o <<read>>)
             ELSE Return(FALSE,
                    [after EXCEPT
                       !.numFromPopular = Len(after.results) - h.numPrevStage,
                       !.numPrevStage = Len(after.results)],
                    hist.calls \o <<read, ExistsCall(RemoveScores(list),
                                                   RemoveScores(visible), down)>>)
    ELSE Return(FALSE, c, <<>>)

(***************************************************************************)
(* Top-K selector (base.TopKStringFilter), by its contract: the k best by  *)
(* score, highest first, equal scores by id.                               *)
(***************************************************************************)
Rank(id) == CHOOSE i \in 1..Len(ItemOrder) : ItemOrder[i] = id

\* Faulty variant: among equal scores the order changes from one request to
\* the next.
BestUnstable(candidates) ==
    CHOOSE id \in DOMAIN candidates : \A o \in DOMAIN candidates :
        \/ candidates[id] > candidates[o]
        \/ /\ candidates[id] = candidates[o]
           /\ IF budget = 0 THEN Rank(id) >= Rank(o) ELSE Rank(id) <= Rank(o)

Best(candidates) ==
    CHOOSE id \in DOMAIN candidates : \A o \in DOMAIN candidates :
        \/ candidates[id] > candidates[o]
        \/ candidates[id] = candidates[o] /\ Rank(id) <= Rank(o)

RECURSIVE PopAll(_, _)
PopAll(candidates, k) ==
    IF k <= 0 \/ DOMAIN candidates = {} THEN <<>>
    ELSE LET b == Best(candidates)
         IN  <<b>> \o PopAll([id \in DOMAIN candidates \ {b} |-> candidates[id]],
                             k - 1)

\* candidates[id] += score, in float32
Accumulate(candidates, id, score) ==
    [k \in DOMAIN candidates \cup {id} |->
        IF k = id
        THEN Float32((IF id \in DOMAIN candidates THEN candidates[id] ELSE 0)
                     + score)
        ELSE candidates[k]]

\* Faulty variant: the candidates map is not empty when the loop starts.
EmptyCandidatesSeeded == [id \in {"c"} |-> 1]

\* candidates := make(map[string]float32)
EmptyCandidates == [id \in {} |-> 0]

\* Faulty variant: the ids of the selector appended lowest score first.
AppendIdsReversed(c, ids) ==
    [c EXCEPT !.results = @ \o [i \in 1..Len(ids) |-> ids[Len(ids) + 1 - i]],
              !.excludeSet = @ \cup {ids[i] : i \in 1..Len(ids)}]

\* Faulty variant: the ids of the selector are appended and not added to
\* the exclude set.
AppendIdsUnmarked(c, ids) == [c EXCEPT !.results = @ \o ids]

\* results = append(results, ids...); excludeSet.Add(ids...)
AppendIds(c, ids) ==
    [c EXCEPT !.results = @ \o ids,
              !.excludeSet = @ \cup {ids[i] : i \in 1..Len(ids)}]

(***************************************************************************)
(* The two map-aggregating recommenders.  A loop carries                   *)
(* [err, candidates, calls] and stops at the first failed call.            *)
(***************************************************************************)
Loop(err, candidates, made) ==
    [err |-> err, candidates |-> candidates, calls |-> made]

\* Faulty variant: the scores of excluded items are accumulated as well.
RECURSIVE AddAllScores(_, _, _)
AddAllScores(similarItems, excludeSet, candidates) ==
    IF similarItems = <<>> THEN candidates
    ELSE AddAllScores(Tail(similarItems), excludeSet,
           Accumulate(candidates, Head(similarItems).Id,
                      Head(similarItems).Score))

\* for _, item := range similarItems { if !Has(item.Id) { candidates += } }
RECURSIVE AddUnseenScores(_, _, _)
AddUnseenScores(similarItems, excludeSet, candidates) ==
    IF similarItems = <<>> THEN candidates
    ELSE AddUnseenScores(Tail(similarItems), excludeSet,
           IF Head(similarItems).Id \notin excludeSet
           THEN Accumulate(candidates, Head(similarItems).Id,
                           Head(similarItems).Score)
           ELSE candidates)

\* for _, feedback := range ctx.userFeedback { ... }
RECURSIVE ItemBasedCandidates(_, _, _, _)
ItemBasedCandidates(rows, c, down, acc) ==
    IF rows = <<>> \/ acc.err THEN acc
    ELSE LET read == ScoresCall(ItemNeighbors,
                                CategoryName(Head(rows).ItemId, c.category),
                                0, CacheSize, down)
             raw == GetCategoryScores(cache, ItemNeighbors, Head(rows).ItemId,
                                      c.category, 0, CacheSize)
             similarItems == filterOutHiddenScores(raw, "Exists" \in down)
         IN  IF "GetScores" \in down
             THEN Loop(TRUE, acc.candidates, Append(acc.calls, read))
             ELSE ItemBasedCandidates(Tail(rows), c, down,
                    Loop(FALSE,
                         AddUnseenScores(similarItems, c.excludeSet,
                                         acc.candidates),
                         acc.calls \o <<read, ExistsCall(RemoveScores(raw),
                                RemoveScores(similarItems), down)>>))

RecommendItemBased(c, down, nilEmpty) ==
    IF Wanting(c)
    THEN LET hist == requireUserFeedback(c, down, nilEmpty)
             h == hist.ctx
             loop == ItemBasedCandidates(h.userFeedback.rows, h, down,
                                         Loop(FALSE, EmptyCandidates, hist.calls))
             k == h.n - Len(h.results)
             after == AppendIds(h, PopAll(loop.candidates, k))
         IN  IF hist.err
             THEN Return(TRUE, c, hist.calls)
             ELSE IF loop.err
             THEN Return(TRUE, h, loop.calls)
             ELSE Return(FALSE,
                    [after EXCEPT
                       !.numFromItemBased = Len(after.results) - h.numPrevStage,
                       !.numPrevStage = Len(after.results)],
                    loop.calls)
    ELSE Return(FALSE, c, <<>>)

\* Faulty variant: candidates of any category are accumulated.
RECURSIVE UserBasedItemsAnyCategory(_, _, _, _, _)
UserBasedItemsAnyCategory(feedbacks, user, c, down, acc) ==
    IF feedbacks = <<>> \/ acc.err THEN acc
    ELSE LET id == Head(feedbacks).ItemId
             missing == "GetItem" \in down \/ id \notin DOMAIN items
             get == DataCall("GetItem", id, missing)
         IN  IF id \in c.excludeSet
             THEN UserBasedItemsAnyCategory(Tail(feedbacks), user, c, down, acc)
             ELSE IF missing
             THEN Loop(TRUE, acc.candidates, Append(acc.calls, get))
             ELSE UserBasedItemsAnyCategory(Tail(feedbacks), user, c, down,
                    Loop(FALSE,
                         Accumulate(acc.candidates, id, user.Score),
                         Append(acc.calls, get)))

\* for _, feedback := range feedbacks { if !Has(ItemId) { GetItem; ... } }
RECURSIVE UserBasedItems(_, _, _, _, _)
UserBasedItems(feedbacks, user, c, down, acc) ==
    IF feedbacks = <<>> \/ acc.err THEN acc
    ELSE LET id == Head(feedbacks).ItemId
             missing == "GetItem" \in down \/ id \notin DOMAIN items
             get == DataCall("GetItem", id, missing)
         IN  IF id \in c.excludeSet
             THEN UserBasedItems(Tail(feedbacks), user, c, down, acc)
             ELSE IF missing
             THEN Loop(TRUE, acc.candidates, Append(acc.calls, get))
             ELSE UserBasedItems(Tail(feedbacks), user, c, down,
                    Loop(FALSE,
                         IF c.category = ""
                            \/ c.category \in items[id].Categories
                         THEN Accumulate(acc.candidates, id, user.Score)
                         ELSE acc.candidates,
                         Append(acc.calls, get)))

\* for _, user := range similarUsers { ... }
RECURSIVE UserBasedCandidates(_, _, _, _)
UserBasedCandidates(similarUsers, c, down, acc) ==
    IF similarUsers = <<>> \/ acc.err THEN acc
    ELSE LET user == Head(similarUsers)
             load == DataCall("GetUserFeedback", user.Id,
                              "GetUserFeedback" \in down)
             raw == GetUserFeedback(feedback, user.Id, FALSE,
                                    PositiveFeedbackType, Unix(clock))
             feedbacks == filterOutHiddenFeedback(raw, "Exists" \in down)
         IN  IF "GetUserFeedback" \in down
             THEN Loop(TRUE, acc.candidates, Append(acc.calls, load))
             ELSE UserBasedCandidates(Tail(similarUsers), c, down,
                    UserBasedItems(feedbacks, user, c, down,
                      Loop(FALSE, acc.candidates,
                           acc.calls \o <<load, ExistsCall(FeedbackIds(raw),
                                       FeedbackIds(feedbacks), down)>>)))

RecommendUserBased(c, down, nilEmpty) ==
    IF Wanting(c)
    THEN LET hist == requireUserFeedback(c, down, nilEmpty)
             h == hist.ctx
             read == ScoresCall(UserNeighbors, h.userId, 0, CacheSize, down)
             similarUsers == GetScores(cache, UserNeighbors, h.userId,
                                       0, CacheSize)
             loop == UserBasedCandidates(similarUsers, h, down,
                       Loop(FALSE, EmptyCandidates, hist.calls \o <<read>>))
             k == h.n - Len(h.results)
             after == AppendIds(h, PopAll(loop.candidates, k))
         IN  IF hist.err
             THEN Return(TRUE, c, hist.calls)
             ELSE IF "GetScores" \in down
             THEN Return(TRUE, h, hist.calls \o <<read>>)
             ELSE IF loop.err
             THEN Return(TRUE, h, loop.calls)
             ELSE Return(FALSE,
                    [after EXCEPT
                       !.numFromUserBased = Len(after.results) - h.numPrevStage,
                       !.numPrevStage = Len(after.results)],
                    loop.calls)
    ELSE Return(FALSE, c, <<>>)

(***************************************************************************)
(* Recommend's tail and getRecommend's paging.                             *)
(***************************************************************************)
\* Faulty variant: Recommend returns all it gathered.
TruncateNever(list, n) == list

\* if len(ctx.results) > n { ctx.results = ctx.results[:n] }
Truncate(list, n) == IF Len(list) > n THEN SubSeq(list, 1, n) ELSE list

\* results[offset:] panics when offset > len(results)
SlicePanics(list, offset) == offset > Len(list)

\* Faulty variant: the first offset ids are not dropped.
SliceNothing(list, offset) == list

Slice(list, offset) == SubSeq(list, offset + 1, Len(list))

FallbackNames == {"collaborative", "item_based", "user_based", "latest", "popular"}

\* Faulty variant: a chain that leaves out the names it does not know.
RECURSIVE BuildKnownRecommenders(_, _)
BuildKnownRecommenders(names, built) ==
    IF names = <<>> THEN [err |-> FALSE, recommenders |-> built]
    ELSE BuildKnownRecommenders(Tail(names),
           IF Head(names) \in FallbackNames THEN Append(built, Head(names))
           ELSE built)

\* The chain getRecommend builds, up to the first name it does not know.
RECURSIVE BuildRecommenders(_, _)
BuildRecommenders(names, built) ==
    IF names = <<>> THEN [err |-> FALSE, recommenders |-> built]
    ELSE IF Head(names) \in FallbackNames
         THEN BuildRecommenders(Tail(names), Append(built, Head(names)))
         ELSE [err |-> TRUE, recommenders |-> built]

Answer(status, body) == [status |-> status, body |-> body]
NoAnswer == Answer("", <<>>)
NoRequest ==
    [n |-> 0, offset |-> 0, category |-> "", writeBackFeedback |-> "",
     writeBackDelay |-> 0]
NoWriteBack == [i |-> 0, timestamp |-> 0]

(***************************************************************************)
(* Initial stores.                                                         *)
(***************************************************************************)
Catalogue ==
    (<<OfflineRecommend, "u1">> :>
        <<Scored("a", 9), Scored("b", 8), Scored("c", 7)>>)
    @@ (<<OfflineRecommend, "u1/books">> :> <<Scored("c", 7)>>)
    @@ (<<CollaborativeRecommend, "u1">> :> <<Scored("b", 5), Scored("d", 4)>>)
    @@ (<<CollaborativeRecommend, "u1/books">> :>
        <<Scored("d", 4), Scored("c", 2)>>)
    @@ (<<LatestItems, "">> :>
        <<Scored("d", 4), Scored("c", 3), Scored("b", 2), Scored("a", 1)>>)
    @@ (<<LatestItems, "books">> :> <<Scored("d", 4), Scored("c", 3)>>)
    @@ (<<PopularItems, "">> :>
        <<Scored("a", 5), Scored("a", 5), Scored("c", 4)>>)
    @@ (<<PopularItems, "books">> :> <<Scored("a", 5)>>)
    @@ (<<ItemNeighbors, "a">> :> <<Scored("b", 3), Scored("c", 3)>>)
    @@ (<<ItemNeighbors, "a/books">> :> <<Scored("c", 3)>>)
    @@ (<<ItemNeighbors, "d">> :> <<Scored("c", 2), Scored("b", 1)>>)
    @@ (<<ItemNeighbors, "d/books">> :> <<Scored("c", 2)>>)
    @@ (<<UserNeighbors, "u1">> :> <<Scored("v", 7), Scored("w", 3)>>)

NeighborFeedback ==
    <<Feedback("v", "a", "like", T0 - 100), Feedback("v", "b", "like", T0 - 100),
      Feedback("v", "c", "like", T0 + 35), Feedback("w", "c", "like", T0 - 100),
      Feedback("w", "d", "like", T0 - 100), Feedback("w", "b", "read", T0 - 100)>>

\* The requesting user: new to the service, or back with feedback on a (kept
\* in the data store and mirrored to IgnoreItems), an IgnoreItems entry of c
\* that expires at T0 + 128, and feedback on d dated T0 + 35 whose mirror to
\* IgnoreItems failed.  Scores of IgnoreItems are float32 of a Unix second.
UserChoices ==
    {[ignore |-> <<>>, rows |-> <<>>],
     [ignore |-> <<Scored("a", Float32(T0 - 100)), Scored("c", Float32(T0 + 128))>>,
      rows |-> <<Feedback(UserId, "a", "like", T0 - 100),
                 Feedback(UserId, "d", "read", T0 + 35)>>]}

HiddenChoices == {{"b"}}

ItemTable ==
    [id \in ItemIds |->
        [Categories |-> IF id = "b" THEN {"music"} ELSE {"books"},
         IsHidden |-> id = "b"]]

ConfigNames == FallbackNames \cup {"unknown"}
FallbackChoices ==
    {<<>>} \cup {<<x>> : x \in ConfigNames}
           \cup {<<x, y>> : x \in ConfigNames, y \in ConfigNames}

Init ==
    /\ \E user \in UserChoices :
          /\ cache = (<<IgnoreItems, UserId>> :> user.ignore) @@ Catalogue
          /\ feedback = user.rows \o NeighborFeedback
    /\ hiddenItems \in HiddenChoices
    /\ items = ItemTable
    /\ clock = 0
    /\ fallbackRecommend \in FallbackChoices
    /\ apiKey = ""
    /\ isDashboard = FALSE
    /\ xApiKey = ""
    /\ prev = [request |-> NoRequest, response |-> NoAnswer, clock |-> 0,
               clean |-> TRUE, at |-> 0]
    /\ budget = 1
    /\ pc = "idle"
    /\ request = NoRequest
    /\ recommenders = <<>>
    /\ idx = 0
    /\ ctx = NoContext
    /\ recommended = <<>>
    /\ results = <<>>
    /\ wb = NoWriteBack
    /\ response = NoAnswer
    /\ calls = <<>>

(***************************************************************************)
(* getRecommend, step by step: a step ends where the handler calls a       *)
(* store (or answers).                                                     *)
(***************************************************************************)
\* The handler answers (Ok, InternalServerError, or a panic) and returns.
Finish(status, body) ==
    /\ response' = Answer(status, body)
    /\ pc' = "done"

\* Faulty variant: any key passes, so long as the header holds one.
authAnyKey(apikey) ==
    isDashboard \/ apiKey = "" \/ apikey # ""

\* apikey: the X-API-Key header of the request.
auth(apikey) ==
    isDashboard \/ apiKey = "" \/ apikey = apiKey

\* The request that was last sent, when it came (clock) and how it went,
\* kept when the next arrives (at).
Previous ==
    [request |-> request, response |-> response, clock |-> prev.at,
     clean |-> \A i \in 1..Len(calls) : ~calls[i].err, at |-> clock]

\* Authorize, parse the arguments and build the chain.
GetRecommend(n, offset, category, writeBackFeedback, writeBackDelay, apikey) ==
    /\ pc \in {"idle", "done"}
    /\ budget > 0
    /\ budget' = budget - 1
    /\ xApiKey' = apikey
    /\ prev' = Previous
    /\ request' = [n |-> n, offset |-> offset, category |-> category,
                   writeBackFeedback |-> writeBackFeedback,
                   writeBackDelay |-> writeBackDelay]
    /\ IF ~auth(apikey)
       THEN /\ recommenders' = <<>>
            /\ Finish("401", <<>>)
       ELSE LET chain == BuildRecommenders(fallbackRecommend, <<"offline">>)
            IN  /\ recommenders' = chain.recommenders
                /\ IF chain.err
                   THEN Finish("500", <<>>)
                   ELSE /\ pc' = "context"
                        /\ response' = NoAnswer
    /\ idx' = 0
    /\ ctx' = NoContext
    /\ recommended' = <<>>
    /\ results' = <<>>
    /\ wb' = NoWriteBack
    /\ calls' = <<>>
    /\ UNCHANGED <<stores, clock, config>>

\* Recommend: create the context from IgnoreItems.
CreateContext ==
    /\ pc = "context"
    /\ \E down \in {{}, {"GetScores"}} :
          /\ calls' = Append(calls, ScoresCall(IgnoreItems, UserId, 0, -1, down))
          /\ IF "GetScores" \in down
             THEN /\ Finish("500", <<>>)
                  /\ UNCHANGED <<ctx, idx>>
             ELSE /\ ctx' = createRecommendContext(UserId, request.category,
                                  request.offset + request.n, clock)
                  /\ idx' = 1
                  /\ pc' = "recommend"
                  /\ UNCHANGED response
    /\ UNCHANGED <<stores, clock, config, arrival, budget, request,
                   recommenders, recommended, results, wb>>

\* Faulty variant: Recommend goes on after a recommender's error.
AfterRecommenderWhatever(r) ==
    /\ calls' = calls \o r.calls
    /\ ctx' = r.ctx
    /\ idx' = idx + 1
    /\ UNCHANGED <<stores, clock, config, arrival, budget, request,
                   recommenders, recommended, results, wb, pc, response>>

\* Recommend: what follows the call of one recommender.
AfterRecommender(r) ==
    /\ calls' = calls \o r.calls
    /\ IF r.err
       THEN /\ Finish("500", <<>>)
            /\ ctx' = NoContext
            /\ UNCHANGED idx
       ELSE /\ ctx' = r.ctx
            /\ idx' = idx + 1
            /\ UNCHANGED <<pc, response>>
    /\ UNCHANGED <<stores, clock, config, arrival, budget, request,
                   recommenders, recommended, results, wb>>

Running(name) ==
    /\ pc = "recommend"
    /\ idx <= Len(recommenders)
    /\ recommenders[idx] = name

Offline ==
    /\ Running("offline")
    /\ \E down \in Outages : AfterRecommender(RecommendOffline(ctx, down))

Collaborative ==
    /\ Running("collaborative")
    /\ \E down \in Outages : AfterRecommender(RecommendCollaborative(ctx, down))

ItemBased ==
    /\ Running("item_based")
    /\ \E down \in Outages, nilEmpty \in BOOLEAN :
          AfterRecommender(RecommendItemBased(ctx, down, nilEmpty))

UserBased ==
    /\ Running("user_based")
    /\ \E down \in Outages, nilEmpty \in BOOLEAN :
          AfterRecommender(RecommendUserBased(ctx, down, nilEmpty))

Latest ==
    /\ Running("latest")
    /\ \E down \in Outages, nilEmpty \in BOOLEAN :
          AfterRecommender(RecommendLatest(ctx, down, nilEmpty))

Popular ==
    /\ Running("popular")
    /\ \E down \in Outages, nilEmpty \in BOOLEAN :
          AfterRecommender(RecommendPopular(ctx, down, nilEmpty))

\* Recommend returns; getRecommend drops the first offset ids.
ReturnRecommend ==
    /\ pc = "recommend"
    /\ idx > Len(recommenders)
    /\ LET out == Truncate(ctx.results, ctx.n)
       IN  /\ ctx' = [ctx EXCEPT !.results = out]
           /\ recommended' = out
           /\ IF SlicePanics(out, request.offset)
              THEN /\ Finish("panic", <<>>)
                   /\ UNCHANGED <<results, wb>>
              ELSE /\ results' = Slice(out, request.offset)
                   /\ IF request.writeBackFeedback # ""
                         /\ Slice(out, request.offset) # <<>>
                      THEN /\ pc' = "write_data"
                           /\ wb' = [i |-> 1, timestamp |-> 0]
                           /\ response' = response
                      ELSE /\ Finish("200", Slice(out, request.offset))
                           /\ wb' = wb
    /\ UNCHANGED <<stores, clock, config, arrival, budget, request,
                   recommenders, idx, calls>>

\* Faulty variant: the write-back walks what Recommend returned, before the
\* first offset ids were dropped.
WriteBackItemUnsliced(i) == recommended[i]

\* for _, itemId := range results
WriteBackItem(i) == results[i]

\* Faulty variant: the insert to the data store is lost.
WriteBackDataUnsaved ==
    /\ pc = "write_data"
    /\ LET timestamp == Unix(clock) + 60 * request.writeBackDelay
           row == Feedback(UserId, WriteBackItem(wb.i),
                           request.writeBackFeedback, timestamp)
       IN  \E err \in BOOLEAN :
              /\ calls' = Append(calls, InsertCall(row, FALSE, FALSE, FALSE, err))
              /\ IF err
                 THEN /\ Finish("500", <<>>)
                      /\ UNCHANGED <<feedback, wb>>
                 ELSE /\ feedback' = feedback
                      /\ wb' = [wb EXCEPT !.timestamp = timestamp]
                      /\ pc' = "write_cache"
                      /\ UNCHANGED response
    /\ UNCHANGED <<cache, hiddenItems, items, clock, config, arrival, budget,
                   request, recommenders, idx, ctx, recommended,
                   results>>

\* Write-back: insert the feedback of results[wb.i] to the data store.
WriteBackData ==
    /\ pc = "write_data"
    /\ LET timestamp == Unix(clock) + 60 * request.writeBackDelay
           row == Feedback(UserId, WriteBackItem(wb.i),
                           request.writeBackFeedback, timestamp)
       IN  \E err \in BOOLEAN :
              /\ calls' = Append(calls, InsertCall(row, FALSE, FALSE, FALSE, err))
              /\ IF err
                 THEN /\ Finish("500", <<>>)
                      /\ UNCHANGED <<feedback, wb>>
                 ELSE /\ feedback' = BatchInsertFeedback(feedback, row)
                      /\ wb' = [wb EXCEPT !.timestamp = timestamp]
                      /\ pc' = "write_cache"
                      /\ UNCHANGED response
    /\ UNCHANGED <<cache, hiddenItems, items, clock, config, arrival, budget,
                   request, recommenders, idx, ctx, recommended,
                   results>>

\* Faulty variant: a failed cache mirror takes the item's row back out of
\* the data store.
WriteBackCacheRollback ==
    /\ pc = "write_cache"
    /\ LET entry == Scored(WriteBackItem(wb.i), Float32(wb.timestamp))
       IN  \E err \in BOOLEAN :
              /\ calls' = Append(calls,
                            Call("AppendScores", IgnoreItems, <<UserId>>,
                                 entry.Score, 0, err, <<WriteBackItem(wb.i)>>))
              /\ IF err
                 THEN /\ Finish("500", <<>>)
                      /\ feedback' = SelectSeq(feedback,
                            LAMBDA r : ~(/\ r.UserId = UserId
                                         /\ r.ItemId = WriteBackItem(wb.i)
                                         /\ r.FeedbackType = request.writeBackFeedback))
                      /\ UNCHANGED <<cache, wb>>
                 ELSE /\ cache' = AppendScores(cache, IgnoreItems, UserId, entry)
                      /\ wb' = [i |-> wb.i + 1, timestamp |-> 0]
                      /\ feedback' = feedback
                      /\ IF wb.i = Len(results)
                         THEN Finish("200", results)
                         ELSE /\ pc' = "write_data"
                              /\ UNCHANGED response
    /\ UNCHANGED <<hiddenItems, items, clock, config, arrival,
                   budget, request, recommenders, idx, ctx,
                   recommended, results>>

\* Write-back: InsertFeedbackToCache mirrors it into IgnoreItems.
WriteBackCache ==
    /\ pc = "write_cache"
    /\ LET entry == Scored(WriteBackItem(wb.i), Float32(wb.timestamp))
       IN  \E err \in BOOLEAN :
              /\ calls' = Append(calls,
                            Call("AppendScores", IgnoreItems, <<UserId>>,
                                 entry.Score, 0, err, <<WriteBackItem(wb.i)>>))
              /\ IF err
                 THEN /\ Finish("500", <<>>)
                      /\ UNCHANGED <<cache, wb>>
                 ELSE /\ cache' = AppendScores(cache, IgnoreItems, UserId, entry)
                      /\ wb' = [i |-> wb.i + 1, timestamp |-> 0]
                      /\ IF wb.i = Len(results)
                         THEN Finish("200", results)
                         ELSE /\ pc' = "write_data"
                              /\ UNCHANGED response
    /\ UNCHANGED <<hiddenItems, feedback, items, clock, config, arrival,
                   budget, request, recommenders, idx, ctx,
                   recommended, results>>

\* Time passes between two requests: a tick is 70 seconds, a request takes
\* less than one.
Tick ==
    /\ clock < MaxTick
    /\ pc = "idle" \/ (pc = "done" /\ budget > 0)
    /\ clock' = clock + 1
    /\ UNCHANGED <<stores, config, arrival, budget, pc, request, recommenders,
                   idx, ctx, recommended, results, wb, response,
                   calls>>

Next ==
    \/ \E n \in 0..MaxN, offset \in 0..MaxOffset, category \in Categories,
          writeBackFeedback \in WriteBackTypes, writeBackDelay \in 0..1 :
          /\ writeBackFeedback = "" => writeBackDelay = 0
          /\ GetRecommend(n, offset, category, writeBackFeedback,
                          writeBackDelay, "")
    \/ CreateContext
    \/ Offline
    \/ Collaborative
    \/ ItemBased
    \/ UserBased
    \/ Latest
    \/ Popular
    \/ ReturnRecommend
    \/ WriteBackData
    \/ WriteBackCache
    \/ Tick

Spec == Init /\ [][Next]_vars

(***************************************************************************)
(* Vocabulary of the properties.                                           *)
(***************************************************************************)
Ids(list) == {list[i] : i \in 1..Len(list)}

NoDuplicates(list) ==
    \A i, j \in 1..Len(list) : i # j => list[i] # list[j]

\* The configured fallback list holds a name getRecommend does not know.
HasUnknown == \E i \in 1..Len(fallbackRecommend) :
                 fallbackRecommend[i] \notin FallbackNames

\* Recommend ran every recommender of the chain and returned its results.
Returned == pc \in {"write_data", "write_cache", "done"} /\ idx > Len(recommenders)

\* The calls of the request in flight that failed, other than hidden checks.
FatalCalls == {i \in 1..Len(calls) : calls[i].err /\ calls[i].op # "Exists"}
FailedHiddenChecks ==
    {i \in 1..Len(calls) : calls[i].err /\ calls[i].op = "Exists"}
WriteBackCalls ==
    {i \in 1..Len(calls) : calls[i].op \in {"BatchInsertFeedback", "AppendScores"}}
\* The calls the recommenders made: all but createRecommendContext's read
\* of IgnoreItems and the write-back.
RecommenderCalls ==
    {i \in 1..Len(calls) :
        /\ calls[i].op \in StoreOps
        /\ calls[i].prefix # IgnoreItems}

SumOfCounters ==
    ctx.numFromOffline + ctx.numFromCollaborative + ctx.numFromItemBased
    + ctx.numFromUserBased + ctx.numFromLatest + ctx.numFromPopular

(***************************************************************************)
(* C1: the list Recommend returns has at most n entries (n the target      *)
(* getRecommend passes, offset + n).                                       *)
(***************************************************************************)
C1_AtMostN == Len(recommended) <= request.offset + request.n

\* Recommend returned n > 0 ids after the recommenders had gathered more.
C1_Witness ==
    /\ Returned
    /\ ctx.n > 0
    /\ Len(recommended) = ctx.n
    /\ ctx.numPrevStage > ctx.n

(***************************************************************************)
(* C2: no item id appears twice in the results, after every recommender    *)
(* step and in what Recommend returns and getRecommend answers.            *)
(***************************************************************************)
C2_NoDuplicates ==
    /\ NoDuplicates(ctx.results)
    /\ NoDuplicates(recommended)
    /\ NoDuplicates(response.body)

\* A chain that runs the same recommender twice answered with a, after
\* reading a list that holds a twice in a row (PopularItems).
C2_Witness ==
    /\ pc = "done"
    /\ response.status = "200"
    /\ Len(recommenders) = 3
    /\ recommenders[2] = recommenders[3]
    /\ "a" \in Ids(response.body)
    /\ \E i \in 1..Len(calls) :
          /\ calls[i].prefix = PopularItems
          /\ calls[i].names = <<"">>
          /\ calls[i].end >= 1

(***************************************************************************)
(* C3, as claimed: an item with an IgnoreItems entry of score <= now is    *)
(* never in the results, and an entry of score > now excludes nothing:     *)
(* the context starts with exactly the ids whose entry has score <= now.   *)
(***************************************************************************)
C3_IgnoredIffExpired ==
    pc = "recommend" =>
        LET now == Unix(clock)
            ignored == Lookup(cache, IgnoreItems, UserId)
            expired == {ignored[i].Id : i \in
                          {j \in 1..Len(ignored) : ignored[j].Score <= now}}
        IN  /\ expired \cap Ids(ctx.results) = {}
            /\ idx = 1 => ctx.excludeSet = expired

(***************************************************************************)
(* C4: when no hidden check of the request failed, no item flagged in      *)
(* HiddenItems passes a filter or appears in the results.                  *)
(***************************************************************************)
C4_HiddenNeverRecommended ==
    FailedHiddenChecks = {} =>
        /\ \A i \in 1..Len(calls) :
              calls[i].op = "Exists" => Ids(calls[i].out) \cap hiddenItems = {}
        /\ Ids(ctx.results) \cap hiddenItems = {}
        /\ Ids(recommended) \cap hiddenItems = {}
        /\ Ids(response.body) \cap hiddenItems = {}

\* UserBased checked the feedback of a neighbour who likes the hidden item
\* b, dropped b, and the request was answered.
C4_Witness ==
    /\ pc = "done"
    /\ response.status = "200"
    /\ response.body # <<>>
    /\ FailedHiddenChecks = {}
    /\ \E i \in 2..Len(calls) :
          /\ calls[i].op = "Exists"
          /\ calls[i - 1].op = "GetUserFeedback"
          /\ "b" \in Ids(calls[i].names)
          /\ "b" \in hiddenItems

(***************************************************************************)
(* C5, as claimed: when Recommend has returned, the six counters add up to *)
(* the number of ids it returned.                                          *)
(***************************************************************************)
C5_CountersSumToResults == Returned => SumOfCounters = Len(recommended)

(***************************************************************************)
(* C6, as claimed: when offset exceeds the number of ids Recommend         *)
(* returned, getRecommend answers 200 with an empty list.                  *)
(***************************************************************************)
C6_OffsetBeyondResultsIsEmpty ==
    (pc = "done" /\ idx > Len(recommenders)
       /\ request.offset > Len(recommended))
    => response = Answer("200", <<>>)

(***************************************************************************)
(* C7, as claimed: a request with n = 0 is answered with an empty list and *)
(* no recommender reads a store, whatever the offset and the chain.        *)
(***************************************************************************)
C7_ZeroReadsNothing ==
    (pc # "idle" /\ request.n = 0) =>
        /\ RecommenderCalls = {}
        /\ pc = "done" => response = Answer("200", <<>>)

(***************************************************************************)
(* C7, amended: a request with n = 0 that is answered 200 is answered with *)
(* an empty list, whatever the offset; with offset = 0 as well, no         *)
(* recommender reads a store and the request is answered 200 unless the    *)
(* chain holds an unknown name or the IgnoreItems read fails.              *)
(***************************************************************************)
C7_ZeroAtOffsetZeroReadsNothing ==
    (pc # "idle" /\ request.n = 0) =>
        /\ response.status = "200" => response.body = <<>>
        /\ request.offset = 0 =>
              /\ RecommenderCalls = {}
              /\ pc = "done" =>
                    \/ response = Answer("200", <<>>)
                    \/ /\ response = Answer("500", <<>>)
                       /\ HasUnknown \/ FatalCalls # {}

\* n = 0 and offset = 0 went through a chain of three recommenders, the
\* stores holding items for them, and was answered.
C7_Witness ==
    /\ pc = "done"
    /\ request.n = 0
    /\ request.offset = 0
    /\ Len(recommenders) = 3
    /\ idx = 4
    /\ calls # <<>>
    /\ response = Answer("200", <<>>)

(***************************************************************************)
(* C8: when the fallback list holds an unknown name, at any place, the     *)
(* request is answered 500 at once: no store call, no context, no          *)
(* recommender step, no write-back.                                        *)
(***************************************************************************)
C8_UnknownFallbackFailsFirst ==
    (HasUnknown /\ pc # "idle") =>
        /\ pc = "done"
        /\ response = Answer("500", <<>>)
        /\ calls = <<>>
        /\ idx = 0
        /\ ctx = NoContext
        /\ recommended = <<>>
        /\ results = <<>>

\* The unknown name stands second, after a name of a recommender, and the
\* request asked for items and a write-back.
C8_Witness ==
    /\ pc = "done"
    /\ Len(fallbackRecommend) = 2
    /\ fallbackRecommend[1] \in FallbackNames
    /\ fallbackRecommend[2] \notin FallbackNames
    /\ request.n > 0
    /\ request.writeBackFeedback # ""
    /\ response.status = "500"

(***************************************************************************)
(* C9: when the IgnoreItems read or a store call of a recommender other    *)
(* than a hidden check fails, that call is the last of the request: the    *)
(* request is answered 500, Recommend returned no results, no later        *)
(* recommender ran and nothing was written back.                           *)
(***************************************************************************)
C9_StoreFailureAborts ==
    (\E i \in FatalCalls : calls[i].op \in StoreOps) =>
        /\ pc = "done"
        /\ response = Answer("500", <<>>)
        /\ calls[Len(calls)].err
        /\ calls[Len(calls)].op \in StoreOps \ {"Exists"}
        /\ FatalCalls = {Len(calls)}
        /\ idx <= Len(recommenders)
        /\ ctx = NoContext \/ idx = 0
        /\ recommended = <<>>
        /\ results = <<>>
        /\ WriteBackCalls = {}

\* The read of an item a neighbour likes failed in UserBased, the second of
\* three recommenders, after Offline had gathered an item, in a request that
\* asked for a write-back.
C9_Witness ==
    /\ pc = "done"
    /\ Len(recommenders) = 3
    /\ idx = 2
    /\ recommenders[2] = "user_based"
    /\ request.writeBackFeedback # ""
    /\ Len(calls) > 4
    /\ calls[Len(calls)].op = "GetItem"
    /\ calls[Len(calls)].err
    /\ \E i \in 1..Len(calls) :
          /\ calls[i].op = "Exists"
          /\ calls[i - 1].prefix = OfflineRecommend
          /\ calls[i].out # <<>>

(***************************************************************************)
(* C10: a hidden check that fails lets its whole input through, in the     *)
(* same order, and is no error: the recommender returns and the chain goes *)
(* on; a 500 answer comes from an unknown name or another call's failure.  *)
(***************************************************************************)
C10_HiddenCheckFailsOpen ==
    /\ \A i \in FailedHiddenChecks : calls[i].out = calls[i].names
    /\ (FailedHiddenChecks # {} /\ FatalCalls = {}) =>
          /\ response.status \in {"", "200", "panic"}
          /\ pc = "recommend" => idx >= 2 /\ ctx # NoContext

\* The check of an offline list that holds the hidden item b failed, and
\* the request was answered with b in its list.
C10_Witness ==
    /\ pc = "done"
    /\ response.status = "200"
    /\ "b" \in hiddenItems
    /\ "b" \in Ids(response.body)
    /\ \E i \in FailedHiddenChecks :
          /\ calls[i - 1].prefix = OfflineRecommend
          /\ "b" \in Ids(calls[i].names)
          /\ Len(calls[i].names) > 1

(***************************************************************************)
(* Vocabulary of the order of the results.                                 *)
(***************************************************************************)
RECURSIVE IsSubsequence(_, _)
IsSubsequence(s, t) ==
    IF s = <<>> THEN TRUE
    ELSE IF t = <<>> THEN FALSE
    ELSE IF Head(s) = Head(t) THEN IsSubsequence(Tail(s), Tail(t))
    ELSE IsSubsequence(s, Tail(t))

\* A recommender of the chain returns without error in this step.
StageReturns(name) ==
    /\ pc = "recommend"
    /\ idx <= Len(recommenders)
    /\ recommenders[idx] = name
    /\ idx' = idx + 1

\* What the recommender of this step appended to the results.
Appended == SubSeq(ctx'.results, Len(ctx.results) + 1, Len(ctx'.results))

\* The ids of the list a ranked-list recommender reads, in list order.
SourceIds(name) ==
    LET prefix == CASE name = "offline" -> OfflineRecommend
                    [] name = "collaborative" -> CollaborativeRecommend
                    [] name = "latest" -> LatestItems
                    [] OTHER -> PopularItems
    IN  RemoveScores(
          IF name \in {"offline", "collaborative"}
          THEN GetCategoryScores(cache, prefix, UserId, request.category, 0, -1)
          ELSE GetScores(cache, prefix, request.category, 0, -1))

RECURSIVE SumScores(_, _)
SumScores(list, id) ==
    IF list = <<>> THEN 0
    ELSE (IF Head(list).Id = id THEN Head(list).Score ELSE 0)
         + SumScores(Tail(list), id)

RECURSIVE SumSeq(_)
SumSeq(terms) == IF terms = <<>> THEN 0 ELSE Head(terms) + SumSeq(Tail(terms))

\* The score ItemBased accumulates for id: over the items of the user's
\* feedback, the scores id has among their neighbours.
ItemBasedScore(id, rows) ==
    LET Term(row) == SumScores(GetCategoryScores(cache, ItemNeighbors, row.ItemId,
                                 request.category, 0, CacheSize), id)
    IN  SumSeq([i \in 1..Len(rows) |-> Term(rows[i])])

\* The score UserBased accumulates for id: the scores of the similar users
\* among whose positive feedback id is.
UserBasedScore(id) ==
    LET Liked(user) == GetUserFeedback(feedback, user.Id, FALSE,
                                       PositiveFeedbackType, Unix(clock))
        Term(user) == user.Score
                      * Cardinality({i \in 1..Len(Liked(user)) :
                                        Liked(user)[i].ItemId = id})
        similarUsers == GetScores(cache, UserNeighbors, UserId, 0, CacheSize)
    IN  SumSeq([i \in 1..Len(similarUsers) |-> Term(similarUsers[i])])

(***************************************************************************)
(* C11: every recommender that returns leaves the results it found in      *)
(* place and appends to them; a ranked-list recommender appends a          *)
(* subsequence of the ids of its list, in list order; ItemBased and        *)
(* UserBased append ids in descending accumulated score.                   *)
(***************************************************************************)
C11_ChainAndSourceOrder ==
    [][/\ \A name \in FallbackNames \cup {"offline"} :
             StageReturns(name) =>
                /\ Len(ctx.results) <= Len(ctx'.results)
                /\ SubSeq(ctx'.results, 1, Len(ctx.results)) = ctx.results
       /\ \A name \in {"offline", "collaborative", "latest", "popular"} :
             StageReturns(name) => IsSubsequence(Appended, SourceIds(name))
       /\ StageReturns("item_based") =>
             \A i, j \in 1..Len(Appended) :
                i < j => ItemBasedScore(Appended[i], ctx'.userFeedback.rows)
                         >= ItemBasedScore(Appended[j], ctx'.userFeedback.rows)
       /\ StageReturns("user_based") =>
             \A i, j \in 1..Len(Appended) :
                i < j => UserBasedScore(Appended[i]) >= UserBasedScore(Appended[j])
      ]_vars

\* Offline, UserBased and Latest each gave ids to one answer, UserBased two
\* of them with different scores.
C11_Witness ==
    /\ pc = "done"
    /\ response.status = "200"
    /\ recommenders = <<"offline", "user_based", "latest">>
    /\ ctx.numFromOffline >= 1
    /\ ctx.numFromUserBased >= 2
    /\ Len(recommended) = 3
    /\ UserBasedScore(recommended[2]) > UserBasedScore(recommended[3])

(***************************************************************************)
(* Vocabulary of the write-back.                                           *)
(***************************************************************************)
\* The write-back calls of the request in flight, in call order.
WriteBackLog ==
    SelectSeq(calls, LAMBDA c : c.op \in {"BatchInsertFeedback", "AppendScores"})

\* The row the write-back makes for an id: {userId, id, T, now + D minutes}.
WriteBackRow(id) ==
    Feedback(UserId, id, request.writeBackFeedback,
             Unix(clock) + 60 * request.writeBackDelay)

HasRow(fb, userId, itemId, type) ==
    \E i \in 1..Len(fb) : /\ fb[i].UserId = userId
                          /\ fb[i].ItemId = itemId
                          /\ fb[i].FeedbackType = type

\* The ids whose call of the given kind succeeded in this request.
Written(op) == {c.out[1] : c \in {WriteBackLog[i] : i \in
                   {j \in 1..Len(WriteBackLog) :
                      WriteBackLog[j].op = op /\ ~WriteBackLog[j].err}}}

(***************************************************************************)
(* C12: a request answered 200 with write-back type T and delay D made,    *)
(* for each id of the answer and in the answer's order, one call of        *)
(* BatchInsertFeedback with the row {userId, id, T, now + D minutes} and   *)
(* flags (false, false, false), then one AppendScores of {id, score of the *)
(* row's Unix time} to IgnoreItems(userId), and no other write-back call;  *)
(* IgnoreItems(userId) ends with these entries.  A request without         *)
(* write-back type makes no write-back call and changes no store.          *)
(***************************************************************************)
C12_WriteBackPerReturnedId ==
    /\ [](/\ (pc = "done" /\ response.status = "200"
                /\ request.writeBackFeedback # "") =>
               LET body == response.body
                   ignored == Lookup(cache, IgnoreItems, UserId)
               IN  /\ Len(WriteBackLog) = 2 * Len(body)
                   /\ Len(ignored) >= Len(body)
                   /\ \A i \in 1..Len(body) :
                         LET insert == WriteBackLog[2 * i - 1]
                             append == WriteBackLog[2 * i]
                         IN  /\ insert.op = "BatchInsertFeedback"
                             /\ ~insert.err
                             /\ insert.row = WriteBackRow(body[i])
                             /\ insert.flags = <<FALSE, FALSE, FALSE>>
                             /\ HasRow(feedback, UserId, body[i],
                                       request.writeBackFeedback)
                             /\ append.op = "AppendScores"
                             /\ ~append.err
                             /\ append.prefix = IgnoreItems
                             /\ append.names = <<UserId>>
                             /\ append.out = <<body[i]>>
                             /\ append.begin = Float32(insert.row.Timestamp)
                             /\ ignored[Len(ignored) - Len(body) + i]
                                  = Scored(body[i], append.begin)
          /\ (pc # "idle" /\ request.writeBackFeedback = "") =>
                WriteBackLog = <<>>)
    /\ [][request'.writeBackFeedback = "" => stores' = stores]_vars

\* Two ids were answered after the first of the pipeline's ids was dropped,
\* written back with a delay.
C12_Witness ==
    /\ pc = "done"
    /\ response.status = "200"
    /\ request.writeBackFeedback # ""
    /\ request.writeBackDelay > 0
    /\ request.offset > 0
    /\ Len(response.body) = 2
    /\ Len(WriteBackLog) = 4

(***************************************************************************)
(* C13: at every point of a write-back the ids this request appended to    *)
(* IgnoreItems are among those it inserted to the data store; a failed     *)
(* cache mirror leaves the cache as it was and the item's feedback row in  *)
(* the data store.                                                         *)
(***************************************************************************)
C13_DataStoreBeforeCache ==
    /\ [](Written("AppendScores") \subseteq Written("BatchInsertFeedback"))
    /\ [][(pc = "write_cache" /\ pc' = "done" /\ response'.status = "500") =>
             /\ cache' = cache
             /\ calls'[Len(calls')].op = "AppendScores"
             /\ calls'[Len(calls')].err
             /\ calls'[Len(calls')].out = <<WriteBackItem(wb.i)>>
             /\ HasRow(feedback', UserId, WriteBackItem(wb.i),
                       request.writeBackFeedback)
             /\ WriteBackItem(wb.i) \notin Written("AppendScores")'
          ]_vars

\* The cache mirror of the second id failed after the first id was written
\* to both stores.
C13_Witness ==
    /\ pc = "done"
    /\ response.status = "500"
    /\ Len(WriteBackLog) = 4
    /\ WriteBackLog[4].op = "AppendScores"
    /\ WriteBackLog[4].err
    /\ Cardinality(Written("BatchInsertFeedback")) = 2
    /\ Cardinality(Written("AppendScores")) = 1

(***************************************************************************)
(* C14: a failed write-back call is the last call of its request and the   *)
(* request is answered 500; what the earlier write-back calls wrote stays: *)
(* every row inserted is in the data store, every entry appended is in     *)
(* IgnoreItems.                                                            *)
(***************************************************************************)
C14_WriteBackFailureAborts ==
    \A k \in 1..Len(calls) :
        (calls[k].op \in {"BatchInsertFeedback", "AppendScores"} /\ calls[k].err) =>
            /\ k = Len(calls)
            /\ pc = "done"
            /\ response = Answer("500", <<>>)
            /\ \A id \in Written("BatchInsertFeedback") :
                  HasRow(feedback, UserId, id, request.writeBackFeedback)
            /\ \A id \in Written("AppendScores") :
                  \E i \in 1..Len(Lookup(cache, IgnoreItems, UserId)) :
                     /\ Lookup(cache, IgnoreItems, UserId)[i].Id = id
                     /\ Lookup(cache, IgnoreItems, UserId)[i].Score
                          = Float32(Unix(clock) + 60 * request.writeBackDelay)
            /\ Cardinality(Written("AppendScores")) = (Len(WriteBackLog) - 1) \div 2
            /\ Cardinality(Written("BatchInsertFeedback")) = Len(WriteBackLog) \div 2

\* The data-store insert of the second of two ids failed.
C14_Witness ==
    /\ pc = "done"
    /\ response.status = "500"
    /\ Len(results) = 2
    /\ Len(WriteBackLog) = 3
    /\ WriteBackLog[3].op = "BatchInsertFeedback"
    /\ WriteBackLog[3].err

(***************************************************************************)
(* C17: the pipeline of a request (offset, n) runs with target offset + n, *)
(* and a list answered is what Recommend returned at positions             *)
(* offset .. offset + n - 1 (counted from 0), so at most n ids.            *)
(***************************************************************************)
C17_ResponseIsPageOfPipeline ==
    /\ (pc \in {"recommend", "write_data", "write_cache"}) =>
          ctx.n = request.offset + request.n
    /\ response.status = "200" =>
          /\ Returned
          /\ Len(response.body) <= request.n
          /\ Len(response.body)
               = Min(request.n, Len(recommended) - request.offset)
          /\ \A i \in 1..Len(response.body) :
                response.body[i] = recommended[request.offset + i]

\* Recommend returned offset + n ids for offset > 0 and n = 2, and the
\* request was answered.
C17_Witness ==
    /\ pc = "done"
    /\ response.status = "200"
    /\ request.offset > 0
    /\ request.n = 2
    /\ Len(recommended) = request.offset + request.n
    /\ Len(response.body) = 2

(***************************************************************************)
(* C19: when UserBased returns for a request with a category, every id it  *)
(* appended is an item whose Categories hold that category; for a request  *)
(* without category every item it looked up is a candidate, so it appends  *)
(* as many ids as it looked up, up to the ids still wanted.                *)
(***************************************************************************)
C19_UserBasedCategory ==
    [][StageReturns("user_based") =>
          LET made == SubSeq(calls', Len(calls) + 1, Len(calls'))
              lookedUp == {made[i].names[1] : i \in
                             {j \in 1..Len(made) : made[j].op = "GetItem"}}
          IN  /\ request.category # "" =>
                    \A id \in Ids(Appended) :
                       /\ id \in lookedUp
                       /\ request.category \in items[id].Categories
              /\ request.category = "" =>
                    /\ Ids(Appended) \subseteq lookedUp
                    /\ Wanting(ctx) =>
                          Len(Appended) = Min(ctx.n - Len(ctx.results),
                                              Cardinality(lookedUp))
      ]_vars

\* For category books UserBased looked up b, an item of category music
\* only, and appended another item but not b.
C19_Witness ==
    /\ pc = "done"
    /\ response.status = "200"
    /\ request.category = "books"
    /\ "books" \notin items["b"].Categories
    /\ \E i \in 1..Len(calls) :
          calls[i].op = "GetItem" /\ calls[i].names = <<"b">> /\ ~calls[i].err
    /\ "b" \notin Ids(recommended)
    /\ ctx.numFromUserBased >= 1

(***************************************************************************)
(* The server with its API key set or not, in dashboard mode or not, and   *)
(* requests that carry the key, another key or none.                       *)
(***************************************************************************)
ApiKeys == {"", "secret"}
XApiKeys == {"", "secret", "Secret"}
AuthFallbackChoices ==
    {<<"collaborative", "item_based">>, <<"user_based", "latest">>, <<"popular">>}

InitAuth ==
    /\ \E user \in UserChoices :
          /\ cache = (<<IgnoreItems, UserId>> :> user.ignore) @@ Catalogue
          /\ feedback = user.rows \o NeighborFeedback
    /\ hiddenItems \in HiddenChoices
    /\ items = ItemTable
    /\ clock = 0
    /\ fallbackRecommend \in AuthFallbackChoices
    /\ apiKey \in ApiKeys
    /\ isDashboard \in BOOLEAN
    /\ xApiKey = ""
    /\ prev = [request |-> NoRequest, response |-> NoAnswer, clock |-> 0,
               clean |-> TRUE, at |-> 0]
    /\ budget = 1
    /\ pc = "idle"
    /\ request = NoRequest
    /\ recommenders = <<>>
    /\ idx = 0
    /\ ctx = NoContext
    /\ recommended = <<>>
    /\ results = <<>>
    /\ wb = NoWriteBack
    /\ response = NoAnswer
    /\ calls = <<>>

NextAuth ==
    \/ \E n \in 0..MaxN, offset \in 0..MaxOffset, category \in Categories,
          writeBackFeedback \in WriteBackTypes, writeBackDelay \in 0..1,
          apikey \in XApiKeys :
          /\ writeBackFeedback = "" => writeBackDelay = 0
          /\ GetRecommend(n, offset, category, writeBackFeedback,
                          writeBackDelay, apikey)
    \/ CreateContext
    \/ Offline
    \/ Collaborative
    \/ ItemBased
    \/ UserBased
    \/ Latest
    \/ Popular
    \/ ReturnRecommend
    \/ WriteBackData
    \/ WriteBackCache
    \/ Tick

SpecAuth == InitAuth /\ [][NextAuth]_vars

\* The server checks the key of the request in flight and it is not the
\* configured one.
Unauthorized == apiKey # "" /\ ~isDashboard /\ xApiKey # apiKey

(***************************************************************************)
(* C20: with an API key configured and the server not in dashboard mode, a *)
(* request whose X-API-Key differs from it is answered 401 at once: no     *)
(* cache or data store call, no context, no results, no store changed.     *)
(* With no key configured, or in dashboard mode, no request is answered    *)
(* 401, whatever its header.                                               *)
(***************************************************************************)
C20_KeyGuardsStores ==
    /\ [](pc # "idle" =>
            /\ Unauthorized =>
                  /\ pc = "done"
                  /\ response = Answer("401", <<>>)
                  /\ calls = <<>>
                  /\ recommenders = <<>>
                  /\ ctx = NoContext
                  /\ recommended = <<>>
                  /\ results = <<>>
            /\ ~Unauthorized => response.status # "401")
    /\ [][Unauthorized' => stores' = stores]_vars

\* A request for two items with write-back came with a key that differs
\* from the configured one in the case of a letter only.
C20_Witness ==
    /\ pc = "done"
    /\ apiKey = "secret"
    /\ xApiKey = "Secret"
    /\ ~isDashboard
    /\ request.n = 2
    /\ request.writeBackFeedback # ""
    /\ response.status = "401"

(***************************************************************************)
(* Two requests in a row for a user with feedback and ignored items, the   *)
(* stores answering every call.                                            *)
(***************************************************************************)
FullChain == <<"collaborative", "item_based", "user_based", "latest", "popular">>
RepeatFallbackChoices == {FullChain, <<"user_based">>}

InitRepeat ==
    /\ \E user \in {u \in UserChoices : u.rows # <<>>} :
          /\ cache = (<<IgnoreItems, UserId>> :> user.ignore) @@ Catalogue
          /\ feedback = user.rows \o NeighborFeedback
    /\ hiddenItems \in HiddenChoices
    /\ items = ItemTable
    /\ clock = 0
    /\ fallbackRecommend \in RepeatFallbackChoices
    /\ apiKey = ""
    /\ isDashboard = FALSE
    /\ xApiKey = ""
    /\ prev = [request |-> NoRequest, response |-> NoAnswer, clock |-> 0,
               clean |-> TRUE, at |-> 0]
    /\ budget = 2
    /\ pc = "idle"
    /\ request = NoRequest
    /\ recommenders = <<>>
    /\ idx = 0
    /\ ctx = NoContext
    /\ recommended = <<>>
    /\ results = <<>>
    /\ wb = NoWriteBack
    /\ response = NoAnswer
    /\ calls = <<>>

\* No store call of the request in flight has failed.
Clean == \A i \in 1..Len(calls) : ~calls[i].err

NextRepeat ==
    \/ \E n \in 0..MaxN, offset \in 0..MaxOffset, category \in Categories,
          writeBackFeedback \in WriteBackTypes, writeBackDelay \in 0..1 :
          /\ writeBackFeedback = "" => writeBackDelay = 0
          /\ GetRecommend(n, offset, category, writeBackFeedback,
                          writeBackDelay, "")
    \/ CreateContext /\ Clean'
    \/ Offline /\ Clean'
    \/ Collaborative /\ Clean'
    \/ ItemBased /\ Clean'
    \/ UserBased /\ Clean'
    \/ Latest /\ Clean'
    \/ Popular /\ Clean'
    \/ ReturnRecommend
    \/ WriteBackData /\ Clean'
    \/ WriteBackCache /\ Clean'
    \/ Tick

SpecRepeat == InitRepeat /\ [][NextRepeat]_vars

\* The request in flight was sent with the arguments of the one before, at
\* the same clock reading, and both were served without a failed call.
SameAgain ==
    /\ pc = "done"
    /\ prev.response.status = "200"
    /\ response.status = "200"
    /\ prev.request = request
    /\ prev.clock = prev.at
    /\ prev.clean
    /\ Clean

(***************************************************************************)
(* C15, as claimed: a request with write-back and delay D > 0 that is sent *)
(* again at once, before the delay has passed, is answered with the same   *)
(* ids in the same order.                                                  *)
(***************************************************************************)
C15_DelayedWriteBackRepeats ==
    (SameAgain /\ request.writeBackFeedback # "" /\ request.writeBackDelay > 0)
    => response.body = prev.response.body

(***************************************************************************)
(* C16: after a request with write-back and delay 0 was answered 200 with  *)
(* the ids R, the next request of the user, whatever its arguments and     *)
(* whenever it comes, gathers no id of R: not in any recommender's         *)
(* results, not in what Recommend returns, not in the answer.              *)
(***************************************************************************)
C16_WriteBackPreventsRepeats ==
    (/\ prev.response.status = "200"
     /\ prev.request.writeBackFeedback # ""
     /\ prev.request.writeBackDelay = 0) =>
        /\ Ids(ctx.results) \cap Ids(prev.response.body) = {}
        /\ Ids(recommended) \cap Ids(prev.response.body) = {}
        /\ Ids(response.body) \cap Ids(prev.response.body) = {}
        /\ pc \in {"recommend", "write_data", "write_cache"} =>
              Ids(prev.response.body) \subseteq ctx.excludeSet

\* The first answer held ids, the next request came at the same second
\* through the whole chain and was answered with other ids.
C16_Witness ==
    /\ pc = "done"
    /\ prev.response.status = "200"
    /\ prev.request.writeBackFeedback # ""
    /\ prev.request.writeBackDelay = 0
    /\ prev.response.body # <<>>
    /\ prev.clock = prev.at
    /\ response.status = "200"
    /\ response.body # <<>>
    /\ Len(recommenders) = 6

UserRows == GetUserFeedback(feedback, UserId, FALSE, {}, Unix(clock))

\* The recommender at hand takes its step: it returns, or fails.
StageRuns(name) ==
    /\ pc = "recommend"
    /\ idx <= Len(recommenders)
    /\ recommenders[idx] = name
    /\ (idx' = idx + 1 \/ pc' = "done")

\* The store calls of this step.
Made == SubSeq(calls', Len(calls) + 1, Len(calls'))

\* The items among the positive feedback of the user's neighbours.
NeighborLikes ==
    LET similarUsers == GetScores(cache, UserNeighbors, UserId, 0, CacheSize)
        Liked(user) == GetUserFeedback(feedback, user.Id, FALSE,
                                       PositiveFeedbackType, Unix(clock))
    IN  UNION {Ids(FeedbackIds(Liked(similarUsers[i]))) :
                 i \in 1..Len(similarUsers)}

UserFeedbackLoads ==
    {i \in 1..Len(calls) :
        calls[i].op = "GetUserFeedback" /\ calls[i].names = <<UserId>>}

(***************************************************************************)
(* C22, as claimed: within one request the feedback of the requesting user *)
(* is loaded at most once, however many recommenders require it, also when *)
(* the user has no feedback rows.                                          *)
(***************************************************************************)
C22_FeedbackLoadedOnce == Cardinality(UserFeedbackLoads) <= 1

\* The entries a GetScores call of the log reads from the cache.
EntriesRead(call) ==
    Len(GetScores(cache, call.prefix, call.names[1], call.begin, call.end))

(***************************************************************************)
(* C23, as claimed: GetScores taking inclusive indices, a read of          *)
(* OfflineRecommend or CollaborativeRecommend gives at most CacheSize      *)
(* entries, and a read of LatestItems or PopularItems at most as many      *)
(* entries as ids are still wanted, n - len(results).                      *)
(***************************************************************************)
C23_ReadsAtMostWanted ==
    /\ [](\A i \in 1..Len(calls) :
            (/\ calls[i].op = "GetScores"
             /\ ~calls[i].err
             /\ calls[i].prefix \in {OfflineRecommend, CollaborativeRecommend})
            => EntriesRead(calls[i]) <= CacheSize)
    /\ [][\A name \in {"latest", "popular"} :
             StageReturns(name) =>
                \A i \in 1..Len(Made) :
                   Made[i].prefix \in {LatestItems, PopularItems} =>
                      EntriesRead(Made[i]) <= ctx.n - Len(ctx.results)
         ]_vars

\* The recommender at hand is invoked with the target reached.
TargetReached ==
    /\ pc = "recommend"
    /\ idx <= Len(recommenders)
    /\ Len(ctx.results) >= ctx.n

(***************************************************************************)
(* C24: a recommender invoked when len(results) >= n returns without error *)
(* and without a store call, and leaves the context (results, excludeSet,  *)
(* userFeedback, counters) and the stores as they are; so with the target  *)
(* reached the rest of the chain makes no store call.                      *)
(***************************************************************************)
C24_TargetReachedTouchesNothing ==
    [][TargetReached =>
          /\ idx' = idx + 1
          /\ pc' = pc
          /\ response' = response
          /\ calls' = calls
          /\ ctx' = ctx
          /\ stores' = stores
      ]_vars

\* Offline reached the target of a request for one id, and the two
\* recommenders after it returned: the only calls are the read of
\* IgnoreItems and Offline's read and hidden check.
C24_Witness ==
    /\ pc = "done"
    /\ response.status = "200"
    /\ request.n = 1
    /\ request.offset = 0
    /\ Len(recommenders) = 3
    /\ recommenders[2] # recommenders[3]
    /\ ctx.numFromOffline >= 1
    /\ Len(calls) = 3
    /\ ctx.userFeedback = NilFeedback

\* The six counters of a context, in the order of the struct.
Counters(c) ==
    <<c.numFromLatest, c.numFromPopular, c.numFromUserBased,
      c.numFromItemBased, c.numFromCollaborative, c.numFromOffline>>

(***************************************************************************)
(* C25, as claimed: from one recommender step of a request to the next no  *)
(* numFrom counter decreases, whatever the chain, also when it names a     *)
(* recommender more than once.                                             *)
(***************************************************************************)
C25_CountersNeverDecrease ==
    [][\A name \in FallbackNames \cup {"offline"} :
          StageReturns(name) =>
             \A k \in 1..6 : Counters(ctx')[k] >= Counters(ctx)[k]
      ]_vars

(***************************************************************************)
(* C26: while a request has its context, every id of the results is in the *)
(* exclude set, and no step takes an id out of the exclude set.            *)
(***************************************************************************)
C26_ExcludeSetCoversResults ==
    /\ [](Ids(ctx.results) \subseteq ctx.excludeSet)
    /\ [][(ctx # NoContext /\ ctx' # NoContext) =>
             ctx.excludeSet \subseteq ctx'.excludeSet]_vars

\* Offline, ItemBased and UserBased each appended an id, the exclude set
\* holding the user's feedback and ignored items besides.
C26_Witness ==
    /\ pc = "done"
    /\ response.status = "200"
    /\ ctx.numFromOffline >= 1
    /\ ctx.numFromItemBased >= 1
    /\ ctx.numFromUserBased >= 1
    /\ Ids(ctx.results) # ctx.excludeSet

(***************************************************************************)
(* Where a step asks excludeSet.Has(id).  UserBased asks right before its  *)
(* GetItem(id); the other recommenders ask in the loop over a list the     *)
(* hidden check has let through.  excludeSet.Add(id) of an appended id     *)
(* comes with the append: in the loop for a ranked list, after the last    *)
(* store call of the step for ItemBased and UserBased.                     *)
(***************************************************************************)
Fetches(id) ==
    {i \in 1..Len(Made) : Made[i].op = "GetItem" /\ Made[i].names = <<id>>}

LetThrough(id) ==
    {i \in 1..Len(Made) : Made[i].op = "Exists" /\ id \in Ids(Made[i].out)}

\* The store calls of the step made after the first Has(id).
CallsAfterCheck(name, id) ==
    IF name = "user_based"
    THEN {i \in 1..Len(Made) : \E g \in Fetches(id) : g <= i}
    ELSE {i \in 1..Len(Made) : \E e \in LetThrough(id) : e < i}

(***************************************************************************)
(* C27, as claimed: in every recommender, UserBased and ItemBased          *)
(* included, no store call is made between the Has check of an id and the  *)
(* Add of that id.                                                         *)
(***************************************************************************)
C27_NoCallBetweenCheckAndAdd ==
    [][\A name \in FallbackNames \cup {"offline"} :
          StageReturns(name) =>
             \A id \in Ids(Appended) : CallsAfterCheck(name, id) = {}
      ]_vars

(***************************************************************************)
(* C27, amended: every id a recommender adds had its Has check answered    *)
(* "no" in the same step.  In Offline, Collaborative, Latest and Popular   *)
(* the check and the Add come after the step's last store call, the hidden *)
(* check that let the id through.  In UserBased the GetItem of the id      *)
(* comes between its check and its Add; in ItemBased the neighbour reads   *)
(* and hidden checks of the feedback rows that follow come between them.   *)
(***************************************************************************)
C27_CheckThenAddWithinStep ==
    [][\A name \in FallbackNames \cup {"offline"} :
          StageReturns(name) =>
             \A id \in Ids(Appended) :
                /\ id \notin ctx.excludeSet
                /\ name \in {"offline", "collaborative", "latest", "popular"} =>
                      /\ Len(Made) \in LetThrough(id)
                      /\ CallsAfterCheck(name, id) = {}
                /\ name = "user_based" =>
                      /\ Fetches(id) # {}
                      /\ CallsAfterCheck(name, id) # {}
                /\ name = "item_based" =>
                      /\ LetThrough(id) # {}
                      /\ \A i \in CallsAfterCheck(name, id) :
                            \/ Made[i].op = "GetScores"
                               /\ Made[i].prefix = ItemNeighbors
                            \/ Made[i].op = "Exists"
      ]_vars

\* ItemBased appended an id it found among the neighbours of the first of
\* the user's items and read the neighbours of the second after that.
C27_Witness ==
    /\ pc = "done"
    /\ response.status = "200"
    /\ ctx.numFromItemBased >= 1
    /\ \E i, j \in 1..Len(calls) :
          /\ i < j
          /\ calls[i].op = "Exists"
          /\ calls[i - 1].prefix = ItemNeighbors
          /\ Ids(calls[i].out) \cap Ids(recommended) # {}
          /\ calls[j].prefix = ItemNeighbors

(***************************************************************************)
(* The list endpoints: popular, latest, item and user neighbours and the   *)
(* intermediate recommendation, all served by getList.                     *)
(***************************************************************************)
\* ParseInt of a query parameter: the value, or an error.
Parsed(value) == [err |-> FALSE, value |-> value]
NotAnInt == [err |-> TRUE, value |-> 0]
QueryInts(max) == {Parsed(v) : v \in 0..max} \cup {NotAnInt}

\* The handler of a list endpoint, after its path parameters are read.
getList(prefix, name, offset, n, apikey) ==
    /\ pc \in {"idle", "done"}
    /\ budget > 0
    /\ budget' = budget - 1
    /\ xApiKey' = apikey
    /\ prev' = Previous
    /\ request' = [n |-> n.value, offset |-> offset.value, category |-> "",
                   writeBackFeedback |-> "", writeBackDelay |-> 0]
    /\ IF ~auth(apikey)
       THEN /\ Finish("401", <<>>)
            /\ calls' = <<>>
       ELSE IF offset.err \/ n.err
       THEN /\ Finish("400", <<>>)
            /\ calls' = <<>>
       ELSE LET begin == offset.value
                end == begin + n.value - 1
            IN  \E down \in {{}, {"GetScores"}} :
                   /\ calls' = <<ScoresCall(prefix, name, begin, end, down)>>
                   /\ IF "GetScores" \in down
                      THEN Finish("500", <<>>)
                      ELSE Finish("200", GetScores(cache, prefix, name, begin, end))
    /\ recommenders' = <<>>
    /\ idx' = 0
    /\ ctx' = NoContext
    /\ recommended' = <<>>
    /\ results' = <<>>
    /\ wb' = NoWriteBack
    /\ UNCHANGED <<stores, clock, config>>

\* getPopular and getCategoryPopular
GetPopular(category, offset, n, apikey) ==
    getList(PopularItems, category, offset, n, apikey)

\* getLatest and getCategoryLatest
GetLatest(category, offset, n, apikey) ==
    getList(LatestItems, category, offset, n, apikey)

\* getItemNeighbors and getItemCategorizedNeighbors
GetItemNeighbors(itemId, category, offset, n, apikey) ==
    getList(ItemNeighbors, CategoryName(itemId, category), offset, n, apikey)

GetUserNeighbors(userId, offset, n, apikey) ==
    getList(UserNeighbors, userId, offset, n, apikey)

\* getCollaborative and getCategorizedCollaborative
GetCollaborative(userId, category, offset, n, apikey) ==
    getList(OfflineRecommend, CategoryName(userId, category), offset, n, apikey)

InitList ==
    /\ \E user \in UserChoices :
          /\ cache = (<<IgnoreItems, UserId>> :> user.ignore) @@ Catalogue
          /\ feedback = user.rows \o NeighborFeedback
    /\ hiddenItems \in HiddenChoices
    /\ items = ItemTable
    /\ clock = 0
    /\ fallbackRecommend = <<>>
    /\ apiKey \in ApiKeys
    /\ isDashboard = FALSE
    /\ xApiKey = ""
    /\ prev = [request |-> NoRequest, response |-> NoAnswer, clock |-> 0,
               clean |-> TRUE, at |-> 0]
    /\ budget = 1
    /\ pc = "idle"
    /\ request = NoRequest
    /\ recommenders = <<>>
    /\ idx = 0
    /\ ctx = NoContext
    /\ recommended = <<>>
    /\ results = <<>>
    /\ wb = NoWriteBack
    /\ response = NoAnswer
    /\ calls = <<>>

NextList ==
    \/ \E category \in Categories, offset \in QueryInts(MaxOffset),
          n \in QueryInts(MaxN), apikey \in XApiKeys :
          \/ GetPopular(category, offset, n, apikey)
          \/ GetLatest(category, offset, n, apikey)
          \/ \E itemId \in ItemIds :
                GetItemNeighbors(itemId, category, offset, n, apikey)
          \/ GetUserNeighbors(UserId, offset, n, apikey)
          \/ GetCollaborative(UserId, category, offset, n, apikey)
    \/ Tick

SpecList == InitList /\ [][NextList]_vars

\* The list a successful list request read, as the cache stores it.
StoredList == Lookup(cache, calls[1].prefix, calls[1].names[1])

(***************************************************************************)
(* C28, as claimed: a list endpoint called with (offset, n), offset >= 0   *)
(* and n >= 0, answers with at most n entries: positions offset to         *)
(* offset + n - 1 of the stored list, in the stored order.                 *)
(***************************************************************************)
C28_ListIsPage ==
    (pc = "done" /\ response.status = "200") =>
        /\ Len(response.body) <= request.n
        /\ response.body = SubSeq(StoredList, request.offset + 1,
                                  Min(request.offset + request.n, Len(StoredList)))

\* The ids of the entries of IgnoreItems(userId), whatever their score.
IgnoredIds == Ids(RemoveScores(Lookup(cache, IgnoreItems, UserId)))

(***************************************************************************)
(* C30: no recommender appends an item of the feedback its context has     *)
(* loaded; ItemBased, UserBased, Latest and Popular, which load it, never  *)
(* append an item on which the user has feedback that is not in the        *)
(* future.  Offline runs first with no feedback loaded and loads none:     *)
(* what it leaves out of the list the hidden check let through are ids of  *)
(* IgnoreItems(userId) and ids the list holds twice.                       *)
(***************************************************************************)
C30_FeedbackItemsNotAppended ==
    [][/\ \A name \in FallbackNames \cup {"offline"} :
             StageReturns(name) =>
                Ids(Appended) \cap Ids(FeedbackIds(ctx'.userFeedback.rows)) = {}
       /\ \A name \in {"item_based", "user_based", "latest", "popular"} :
             (StageReturns(name) /\ Wanting(ctx)) =>
                /\ ctx'.userFeedback.rows = UserRows
                /\ Ids(FeedbackIds(UserRows)) \subseteq ctx'.excludeSet
                /\ Ids(Appended) \cap Ids(FeedbackIds(UserRows)) = {}
       /\ StageReturns("offline") =>
             /\ idx = 1
             /\ ctx.userFeedback = NilFeedback
             /\ ctx'.userFeedback = NilFeedback
             /\ \A i \in 1..Len(Made) : Made[i].op # "GetUserFeedback"
             /\ Wanting(ctx) =>
                   Ids(Made[Len(Made)].out) \ Ids(Appended) \subseteq IgnoredIds
      ]_vars

\* Latest read a list that starts with d, an item of the user's feedback
\* that is not among the ignored items, and the answer holds other ids.
C30_Witness ==
    /\ pc = "done"
    /\ response.status = "200"
    /\ response.body # <<>>
    /\ "d" \in Ids(FeedbackIds(ctx.userFeedback.rows))
    /\ "d" \notin IgnoredIds
    /\ "d" \notin Ids(recommended)
    /\ ctx.numFromLatest >= 1
    /\ \E i \in 1..Len(calls) :
          /\ calls[i].op = "Exists"
          /\ calls[i - 1].prefix = LatestItems
          /\ "d" \in Ids(calls[i].out)

(***************************************************************************)
(* The item handlers: insertItem, insertItems, modifyItem, deleteItem.     *)
(* The data store's BatchInsertItems, ModifyItem and DeleteItem and the    *)
(* cache's SetInt, Delete and SetTime, by their contracts.                 *)
(***************************************************************************)
LastModifyItemTime == "last_modify_item_time"

Item(itemId, isHidden, categories) ==
    [ItemId |-> itemId, IsHidden |-> isHidden, Categories |-> categories]

RECURSIVE BatchInsertItems(_, _)
BatchInsertItems(table, batch) ==
    IF batch = <<>> THEN table
    ELSE BatchInsertItems(
           [id \in DOMAIN table \cup {Head(batch).ItemId} |->
               IF id = Head(batch).ItemId
               THEN [Categories |-> Head(batch).Categories,
                     IsHidden |-> Head(batch).IsHidden]
               ELSE table[id]],
           Tail(batch))

\* data.ItemPatch: IsHidden is a pointer, "nil" when the patch leaves it out.
ItemPatch(isHidden) == [IsHidden |-> isHidden]

ModifyItem(table, itemId, patch) ==
    IF itemId \in DOMAIN table /\ patch.IsHidden # "nil"
    THEN [table EXCEPT ![itemId].IsHidden = (patch.IsHidden = "true")]
    ELSE table

DeleteItem(table, itemId) == [id \in DOMAIN table \ {itemId} |-> table[id]]

SetInt(h, itemId) == h \cup {itemId}
Delete(h, itemId) == h \ {itemId}

RECURSIVE SetTime(_, _, _, _)
SetTime(c, prefix, names, t) ==
    IF names = <<>> THEN c
    ELSE SetTime([k \in DOMAIN c \cup {<<prefix, Head(names)>>} |->
                     IF k = <<prefix, Head(names)>>
                     THEN <<Scored(Head(names), t)>> ELSE c[k]],
                 prefix, Tail(names), t)

CacheCall(op, prefix, name, err) == Call(op, prefix, <<name>>, 0, 0, err, <<>>)

Success(count) == [RowAffected |-> count]
\* What the client gets when a handler returns without writing an answer.
NothingWritten == Answer("200", <<>>)

ItemRequest(op, ids, isHidden) == [op |-> op, ids |-> ids, IsHidden |-> isHidden]

\* What every item handler does to the state of the handler in flight.
ItemHandler(req, apikey, answer, made) ==
    /\ pc \in {"idle", "done"}
    /\ budget > 0
    /\ budget' = budget - 1
    /\ xApiKey' = apikey
    /\ prev' = Previous
    /\ request' = req
    /\ response' = answer
    /\ pc' = "done"
    /\ calls' = made
    /\ recommenders' = <<>>
    /\ idx' = 0
    /\ ctx' = NoContext
    /\ recommended' = <<>>
    /\ results' = <<>>
    /\ wb' = NoWriteBack
    /\ UNCHANGED <<feedback, clock, config>>

BodyFailures == {"ReadEntity", "ParseAny"}

\* The tail insertItem and insertItems share: batch insert, then SetTime
\* for each item until one fails.
InsertBatch(req, batch, fail, apikey) ==
    LET ids == [i \in 1..Len(batch) |-> batch[i].ItemId]
        insert == DataCall("BatchInsertItems", ids[1], fail = "BatchInsertItems")
        TimeCalls(k, err) ==
            [i \in 1..k |-> CacheCall("SetTime", LastModifyItemTime, ids[i],
                                      err /\ i = k)]
    IN  IF ~auth(apikey)
        THEN /\ ItemHandler(req, apikey, Answer("401", <<>>), <<>>)
             /\ UNCHANGED stores
        ELSE IF fail \in BodyFailures
        THEN /\ ItemHandler(req, apikey, Answer("400", <<>>), <<>>)
             /\ UNCHANGED stores
        ELSE IF fail = "BatchInsertItems"
        THEN /\ ItemHandler(req, apikey, Answer("500", <<>>), <<insert>>)
             /\ UNCHANGED stores
        ELSE IF fail = "SetTime"
        THEN \E k \in 1..Len(batch) :
                /\ ItemHandler(req, apikey, NothingWritten,
                               <<insert>> \o TimeCalls(k, TRUE))
                /\ items' = BatchInsertItems(items, batch)
                /\ cache' = SetTime(cache, LastModifyItemTime,
                                    SubSeq(ids, 1, k - 1), Unix(clock))
                /\ UNCHANGED hiddenItems
        ELSE /\ ItemHandler(req, apikey, Answer("200", Success(Len(batch))),
                            <<insert>> \o TimeCalls(Len(batch), FALSE))
             /\ items' = BatchInsertItems(items, batch)
             /\ cache' = SetTime(cache, LastModifyItemTime, ids, Unix(clock))
             /\ UNCHANGED hiddenItems

insertItem(item, fail, apikey) ==
    InsertBatch(ItemRequest("insertItem", <<item.ItemId>>,
                            IF item.IsHidden THEN "true" ELSE "false"),
                <<item>>, fail, apikey)

\* The batch is not empty and its items share IsHidden.
insertItems(batch, fail, apikey) ==
    InsertBatch(ItemRequest("insertItems",
                            [i \in 1..Len(batch) |-> batch[i].ItemId],
                            IF batch[1].IsHidden THEN "true" ELSE "false"),
                batch, fail, apikey)

modifyItem(itemId, patch, fail, apikey) ==
    LET req == ItemRequest("modifyItem", <<itemId>>, patch.IsHidden)
        modify == DataCall("ModifyItem", itemId, fail = "ModifyItem")
        absent == fail = "NotFound"
        flag == IF patch.IsHidden = "true"
                THEN <<CacheCall("SetInt", HiddenItems, itemId, fail = "SetInt")>>
                ELSE IF patch.IsHidden = "false"
                THEN <<CacheCall("Delete", HiddenItems, itemId,
                                 fail = "Delete" \/ absent)>>
                ELSE <<>>
        flagged == IF patch.IsHidden = "true" THEN SetInt(hiddenItems, itemId)
                   ELSE IF patch.IsHidden = "false"
                   THEN Delete(hiddenItems, itemId)
                   ELSE hiddenItems
        time == CacheCall("SetTime", LastModifyItemTime, itemId, fail = "SetTime")
    IN  /\ fail = "SetInt" => patch.IsHidden = "true"
        /\ fail = "Delete" => patch.IsHidden = "false"
        /\ absent => (patch.IsHidden = "false" /\ itemId \notin hiddenItems)
        /\ IF ~auth(apikey)
           THEN /\ ItemHandler(req, apikey, Answer("401", <<>>), <<>>)
                /\ UNCHANGED stores
           ELSE IF fail = "ReadEntity"
           THEN /\ ItemHandler(req, apikey, Answer("400", <<>>), <<>>)
                /\ UNCHANGED stores
           ELSE IF fail = "ModifyItem"
           THEN /\ ItemHandler(req, apikey, Answer("500", <<>>), <<modify>>)
                /\ UNCHANGED stores
           ELSE IF fail \in {"SetInt", "Delete"}
           THEN /\ ItemHandler(req, apikey, Answer("500", <<>>),
                               <<modify>> \o flag)
                /\ items' = ModifyItem(items, itemId, patch)
                /\ UNCHANGED <<cache, hiddenItems>>
           ELSE IF fail = "SetTime"
           THEN /\ ItemHandler(req, apikey, NothingWritten,
                               <<modify>> \o flag \o <<time>>)
                /\ items' = ModifyItem(items, itemId, patch)
                /\ hiddenItems' = flagged
                /\ UNCHANGED cache
           ELSE /\ ItemHandler(req, apikey, Answer("200", Success(1)),
                               <<modify>> \o flag \o <<time>>)
                /\ items' = ModifyItem(items, itemId, patch)
                /\ hiddenItems' = flagged
                /\ cache' = SetTime(cache, LastModifyItemTime, <<itemId>>,
                                    Unix(clock))

deleteItem(itemId, fail, apikey) ==
    LET req == ItemRequest("deleteItem", <<itemId>>, "nil")
        delete == DataCall("DeleteItem", itemId, fail = "DeleteItem")
        flag == CacheCall("SetInt", HiddenItems, itemId, fail = "SetInt")
    IN  IF ~auth(apikey)
        THEN /\ ItemHandler(req, apikey, Answer("401", <<>>), <<>>)
             /\ UNCHANGED stores
        ELSE IF fail = "DeleteItem"
        THEN /\ ItemHandler(req, apikey, Answer("500", <<>>), <<delete>>)
             /\ UNCHANGED stores
        ELSE IF fail = "SetInt"
        THEN /\ ItemHandler(req, apikey, Answer("500", <<>>), <<delete, flag>>)
             /\ items' = DeleteItem(items, itemId)
             /\ UNCHANGED <<cache, hiddenItems>>
        ELSE /\ ItemHandler(req, apikey, Answer("200", Success(1)),
                            <<delete, flag>>)
             /\ items' = DeleteItem(items, itemId)
             /\ hiddenItems' = SetInt(hiddenItems, itemId)
             /\ UNCHANGED cache

(***************************************************************************)
(* Item requests followed by recommendation requests, the stores answering *)
(* every call of a recommendation.                                         *)
(***************************************************************************)
InsertFailures == {"", "ReadEntity", "ParseAny", "BatchInsertItems", "SetTime"}
ModifyFailures ==
    {"", "ReadEntity", "ModifyItem", "SetInt", "Delete", "NotFound", "SetTime"}
DeleteFailures == {"", "DeleteItem", "SetInt"}
PatchChoices == {ItemPatch(h) : h \in {"nil", "true", "false"}}
InsertChoices == {Item(id, h, {"books"}) : id \in ItemIds, h \in BOOLEAN}
BatchChoices ==
    {<<Item("a", h, {"books"}), Item("c", h, {"books"})>> : h \in BOOLEAN}
ItemsFallbackChoices == {<<>>, FullChain}

InitItems ==
    /\ \E user \in UserChoices :
          /\ cache = (<<IgnoreItems, UserId>> :> user.ignore) @@ Catalogue
          /\ feedback = user.rows \o NeighborFeedback
    /\ hiddenItems \in HiddenChoices
    /\ items = ItemTable
    /\ clock = 0
    /\ fallbackRecommend \in ItemsFallbackChoices
    /\ apiKey = ""
    /\ isDashboard = FALSE
    /\ xApiKey = ""
    /\ prev = [request |-> NoRequest, response |-> NoAnswer, clock |-> 0,
               clean |-> TRUE, at |-> 0]
    /\ budget = 2
    /\ pc = "idle"
    /\ request = NoRequest
    /\ recommenders = <<>>
    /\ idx = 0
    /\ ctx = NoContext
    /\ recommended = <<>>
    /\ results = <<>>
    /\ wb = NoWriteBack
    /\ response = NoAnswer
    /\ calls = <<>>

NextItems ==
    \/ \E item \in InsertChoices, fail \in InsertFailures :
          insertItem(item, fail, "")
    \/ \E batch \in BatchChoices, fail \in InsertFailures :
          insertItems(batch, fail, "")
    \/ \E itemId \in ItemIds, patch \in PatchChoices, fail \in ModifyFailures :
          modifyItem(itemId, patch, fail, "")
    \/ \E itemId \in ItemIds, fail \in DeleteFailures :
          deleteItem(itemId, fail, "")
    \/ \E n \in 0..MaxN, offset \in 0..MaxOffset, category \in Categories :
          GetRecommend(n, offset, category, "", 0, "")
    \/ CreateContext /\ Clean'
    \/ Offline /\ Clean'
    \/ Collaborative /\ Clean'
    \/ ItemBased /\ Clean'
    \/ UserBased /\ Clean'
    \/ Latest /\ Clean'
    \/ Popular /\ Clean'
    \/ ReturnRecommend

SpecItems == InitItems /\ [][NextItems]_vars

\* The request is one of an item handler.
IsItemRequest(req) == "op" \in DOMAIN req

\* An item request that was answered with success and hides its items.
Hides(req, answer) ==
    /\ IsItemRequest(req)
    /\ answer.status = "200"
    /\ \/ req.op = "deleteItem"
       \/ /\ req.op \in {"modifyItem", "insertItem", "insertItems"}
          /\ req.IsHidden = "true"

\* An item request that was answered with success and shows its item again.
Unhides(req, answer) ==
    /\ IsItemRequest(req)
    /\ answer.status = "200"
    /\ req.op = "modifyItem"
    /\ req.IsHidden = "false"

(***************************************************************************)
(* C29, as claimed: when deleteItem(id), modifyItem(id, IsHidden = true)   *)
(* or an insertItem or insertItems of id with IsHidden = true is answered  *)
(* with success, id is flagged in HiddenItems; the flag of an id goes only *)
(* with a modifyItem(id, IsHidden = false) answered with success; and the  *)
(* recommendation request that follows a hiding request, its hidden checks *)
(* succeeding, gathers and returns none of the hidden ids.                 *)
(***************************************************************************)
C29_HiddenAfterItemRequest ==
    /\ []((/\ Hides(prev.request, prev.response)
           /\ ~IsItemRequest(request)
           /\ FailedHiddenChecks = {}) =>
             LET hidden == Ids(prev.request.ids)
             IN  /\ hidden \cap Ids(ctx.results) = {}
                 /\ hidden \cap Ids(recommended) = {}
                 /\ hidden \cap Ids(response.body) = {})
    /\ [][/\ (budget' < budget /\ Hides(request', response')) =>
                Ids(request'.ids) \subseteq hiddenItems'
          /\ hiddenItems' # hiddenItems =>
                \A id \in hiddenItems \ hiddenItems' :
                   /\ Unhides(request', response')
                   /\ request'.ids = <<id>>
         ]_vars

====
